---- MODULE Spec2Model ----
(***************************************************************************)
(* Model of the local synchronization cache of trading212-mcp-server:      *)
(* HistoricalDataStore (src/src/utils/data_store.py) together with the     *)
(* request parameters built by Trading212Client (src/src/utils/client.py). *)
(*                                                                         *)
(* Conventions.  Python None / SQL NULL is modelled per type: 0 for an     *)
(* order id or a cursor, "None" for a string, NoDate for a timestamp and   *)
(* the empty set for an optional integer argument.  A table is the set of  *)
(* its rows; a row is a record of the columns the store reads back.        *)
(***************************************************************************)
EXTENDS Integers, Sequences, FiniteSets, TLC

\* ---------------------------------------------------------------------------
\* Bounds of the model
\* ---------------------------------------------------------------------------
MaxFetches == 2      \* page fetches of one sync call
MaxUpsertLen == 1    \* records passed to a direct _upsert_* call
MaxNow == 1          \* clock ticks

\* ---------------------------------------------------------------------------
\* Program constants
\* ---------------------------------------------------------------------------
IMMUTABLE_ORDER_STATUSES == {"FILLED", "CANCELLED", "REJECTED"}

VALID_TABLES == {"orders", "dividends", "transactions"}

ORDERS_LIMIT_CAP == 8

SYNC_ORDERS_LIMIT == 8

ACCOUNT_ID == 12345

DEFAULT_FRESHNESS_MINUTES == 60

NoId == 0
NoCursor == 0

\* A timezone-aware timestamp: the wall-clock reading and the UTC offset it
\* is written with.  NoDate stands for None.
Ts(w, o) == [wall |-> w, off |-> o]
NoDate == Ts(0, 0)

VARIABLES
    cache_freshness_minutes,    \* config.CACHE_FRESHNESS_MINUTES
    enabled,            \* HistoricalDataStore.enabled
    db,                 \* table name -> set of rows (all accounts)
    meta,               \* sync_metadata rows of the store's account, by table
    now,                \* wall clock (datetime.now())
    pc,                 \* "idle", or the sync being executed: in its
                        \* while loop or in the code after it ("..._merge")
    cursor,             \* local variable cursor of the running sync
    cutoff_dt,          \* local variable cutoff_dt of sync_dividends
    all_items,          \* local variable all_orders / all_dividends
    fetch_log,          \* upstream requests of the most recent call, with the
                        \* size of each response
    args,               \* arguments of the most recent call
    ret,                \* what the most recent call returned (or raised)
    pagination_time,    \* local variable pagination_time of sync_transactions
    results,            \* the dict returned by sync_all / sync_historical_data
    upstream,           \* the answers the upstream gave during that call
    retry,              \* with_retry: its arguments, the loop variable, the
                        \* invocations of the wrapped call and the sleeps
    limiter,            \* RateLimiter._endpoints
    sql_log,            \* SQL statements the most recent call of a management
                        \* method of the store executed
    data_store          \* whether Trading212Client._data_store holds the store

\* The variables of the transactions sync, of the multi-table sync and of
\* the HTTP layer; the operations on orders and dividends leave them alone.
http_vars == <<retry, limiter>>

\* The variables of the management methods and of the client's cache wrappers.
cache_vars == <<sql_log, data_store>>

other_vars == <<pagination_time, results, upstream, http_vars, cache_vars>>

\* What the retry decorator and the rate limiter leave alone.
store_vars == <<cache_freshness_minutes, enabled, db, meta, cursor, cutoff_dt,
               all_items, fetch_log, pagination_time, results, upstream,
               cache_vars>>

vars == <<cache_freshness_minutes, enabled, db, meta, now, pc, cursor,
         cutoff_dt, all_items, fetch_log, args, ret, other_vars>>

\* ---------------------------------------------------------------------------
\* Orders: records, upstream pages
\* ---------------------------------------------------------------------------
OrderIds == {1}
FillPrices == {150, 999}
Cursors == {1}

\* An order as returned upstream (the fields the store writes).
\* dateCreated never changes for an order: the order of id i was created at
\* hour i.
Order(i, s, p) ==
    [id |-> i, status |-> s, fill_price |-> p, date_created |-> Ts(i, 0)]

OrderItems ==
    {Order(i, s, p) : i \in OrderIds, s \in {"NEW", "FILLED"}, p \in FillPrices}
    \cup {Order(i, s, 150) : i \in OrderIds, s \in {"CANCELLED", "REJECTED"}}
    \cup {Order(NoId, "FILLED", 150)}

\* The page of exactly ORDERS_LIMIT_CAP distinct filled orders.
FullOrdersPage == [i \in 1..ORDERS_LIMIT_CAP |-> Order(i, "FILLED", 150)]

SeqsUpTo(S, n) == UNION {[1..k -> S] : k \in 0..n}

\* Orders that upstream pages are made of.
PageOrderItems ==
    {o \in OrderItems : o.status # "REJECTED" /\ (o.status = "NEW" => o.fill_price = 150)}

OrderPages == SeqsUpTo(PageOrderItems, 1) \cup {FullOrdersPage}

\* Argument lists of a direct _upsert_orders call.
OrderLists == SeqsUpTo(OrderItems, MaxUpsertLen)

\* nextPagePath of a response, by what the query-string parse finds in it.
NextPagePaths ==
    {[kind |-> k, cursor |-> NoCursor] : k \in {"none", "no_cursor", "bad_cursor"}}
    \cup {[kind |-> "cursor", cursor |-> c] : c \in Cursors}

RaisedResponse == [raised |-> TRUE, items |-> <<>>,
                   next |-> [kind |-> "none", cursor |-> NoCursor]]

EmptyResponse == [RaisedResponse EXCEPT !.raised = FALSE]

OrderResponses ==
    {RaisedResponse}
    \cup {[raised |-> FALSE, items |-> p, next |-> n] : p \in OrderPages, n \in NextPagePaths}

\* ---------------------------------------------------------------------------
\* Persistent store: rows and SQL statements
\* ---------------------------------------------------------------------------
\* Primary key of the orders table.
OrdersPK(r) == r.id

OrderRow(order) ==
    [id |-> order.id, account_id |-> ACCOUNT_ID, status |-> order.status,
     fill_price |-> order.fill_price, date_created |-> order.date_created]

\* Variant: INSERT OR IGNORE, a stored row with the key is kept.
InsertOrIgnoreOrder(tbl, row) ==
    IF \E r \in tbl : OrdersPK(r) = OrdersPK(row) THEN tbl ELSE tbl \cup {row}

\* INSERT OR REPLACE INTO orders: the row replaces every row with its key.
InsertOrReplaceOrder(tbl, row) ==
    {r \in tbl : OrdersPK(r) # OrdersPK(row)} \cup {row}

\* SELECT status FROM orders WHERE id = ? AND account_id = ?
ExistingOrder(tbl, id) == {r \in tbl : r.id = id /\ r.account_id = ACCOUNT_ID}

\* SELECT ... FROM <table> WHERE account_id = ?
RowsOf(tbl) == {r \in tbl : r.account_id = ACCOUNT_ID}

\* Variant: the guard protects a stored row only when it is FILLED.
IsImmutableFilledOnly(tbl, id) ==
    \E r \in ExistingOrder(tbl, id) : r.status = "FILLED"

\* The immutability guard: the stored row of this id has a final status.
IsImmutable(tbl, id) ==
    \E r \in ExistingOrder(tbl, id) : r.status \in IMMUTABLE_ORDER_STATUSES

\* State of the for loop of _upsert_orders: the table, the counter inserted,
\* and the number of discrepancy warnings and of skip messages logged.
UpsertState(tbl) == [tbl |-> tbl, inserted |-> 0, warnings |-> 0, skips |-> 0]

\* Variant: every skipped record is reported as a discrepancy.
UpsertOneOrderWarningOnEverySkip(st, order) ==
    IF order.id = NoId THEN st
    ELSE IF IsImmutable(st.tbl, order.id)
         THEN [st EXCEPT !.warnings = @ + 1]
         ELSE [st EXCEPT !.tbl = InsertOrReplaceOrder(@, OrderRow(order)),
                         !.inserted = @ + 1]

\* One iteration of the for loop of _upsert_orders.
UpsertOneOrder(st, order) ==
    IF order.id = NoId THEN st
    ELSE IF IsImmutable(st.tbl, order.id)
         THEN IF \E r \in ExistingOrder(st.tbl, order.id) : r.status # order.status
              THEN [st EXCEPT !.warnings = @ + 1]
              ELSE [st EXCEPT !.skips = @ + 1]
         ELSE [st EXCEPT !.tbl = InsertOrReplaceOrder(@, OrderRow(order)),
                         !.inserted = @ + 1]

RECURSIVE UpsertOrdersFrom(_, _)
UpsertOrdersFrom(st, orders) ==
    IF orders = <<>> THEN st
    ELSE UpsertOrdersFrom(UpsertOneOrder(st, Head(orders)), Tail(orders))

\* _upsert_orders(orders): the table afterwards and the returned count.
UpsertOrders(tbl, orders) == UpsertOrdersFrom(UpsertState(tbl), orders)

\* ---------------------------------------------------------------------------
\* Upstream client
\* ---------------------------------------------------------------------------
Min(a, b) == IF a < b THEN a ELSE b

\* Variant: the caller's limit is passed through.
OrdersRequestLimitUnclamped(limit) == limit

\* Trading212Client.get_historical_order_data: params["limit"] = min(limit, 8)
OrdersRequestLimit(limit) == Min(limit, ORDERS_LIMIT_CAP)

\* An entry of fetch_log: the request as sent, the number of items of the
\* response, how many of them the sync added to its list, what nextPagePath
\* held, and whether the call raised.
Fetched(ep, c, limit, resp, kept) ==
    [endpoint |-> ep, cursor |-> c, limit |-> limit, n |-> Len(resp.items),
     kept |-> kept, next |-> resp.next.kind, raised |-> resp.raised]

OrdersFetched(c, limit, resp) ==
    Fetched("orders", c, OrdersRequestLimit(limit), resp, Len(resp.items))

\* ---------------------------------------------------------------------------
\* Returned values
\* ---------------------------------------------------------------------------
\* None where a DataCoverage is expected, and where a last sync time is.
NoCoverage == [none |-> TRUE, count |-> 0, oldest |-> NoDate, newest |-> NoDate]

NoLastSync == [none |-> TRUE, kind |-> "None", at |-> 0]

\* A CacheStats value: enabled, the three counts, the three last sync times
\* and the three coverages.
CacheStats(en, counts, last_sync, coverage) ==
    [none |-> FALSE, enabled |-> en, counts |-> counts, last_sync |-> last_sync,
     coverage |-> coverage]

NoStats ==
    [none |-> TRUE, enabled |-> FALSE,
     counts |-> [t \in {"orders", "dividends", "transactions"} |-> 0],
     last_sync |-> [t \in {"orders", "dividends", "transactions"} |-> NoLastSync],
     coverage |-> [t \in {"orders", "dividends", "transactions"} |-> NoCoverage]]

NoRet ==
    [op |-> "None", records_fetched |-> 0, records_added |-> 0,
     total_records |-> 0, last_sync |-> 0, error |-> "None", raised |-> FALSE,
     count |-> 0, warnings |-> 0, skips |-> 0, fresh |-> FALSE,
     allowed |-> FALSE, wait |-> 0, newest |-> NoDate,
     coverage |-> NoCoverage, deleted |-> {}, stats |-> NoStats]

SyncResult(t, fetched, added, total, ls, err) ==
    [NoRet EXCEPT !.op = t, !.records_fetched = fetched, !.records_added = added,
                  !.total_records = total, !.last_sync = ls, !.error = err]

Raised(t, err) == [NoRet EXCEPT !.op = t, !.raised = TRUE, !.error = err]

\* A header value as headers.get gives it: None, the empty string, text
\* that is not a number, the text of a number with a decimal point, the text
\* of an integer.
Missing == [kind |-> "missing", value |-> 0]

EmptyText == [kind |-> "empty", value |-> 0]

Text == [kind |-> "text", value |-> 0]

Decimal(v) == [kind |-> "decimal", value |-> v]

Integer(v) == [kind |-> "integer", value |-> v]

\* The float that is not a number (times are never negative, so -1 is free
\* to stand for it), and the text float() reads as it.
NaN == -1

NaNText == [kind |-> "nan", value |-> NaN]

\* Comparison and subtraction of floats: every comparison with the
\* not-a-number is false, every difference with it is not a number.
FloatGeq(a, b) == a # NaN /\ b # NaN /\ a >= b

FloatGt(a, b) == a # NaN /\ b # NaN /\ a > b

FloatMinus(a, b) == IF a = NaN \/ b = NaN THEN NaN ELSE a - b

\* Arguments of a call: the record list of an upsert, the table of a
\* clear_cache or a freshness check, the cursor and limit of a history tool,
\* the incremental flag of a sync, the optional max_age_minutes, the tables
\* and force of sync_historical_data, the endpoint and the x-ratelimit
\* headers of a rate limiter call.
NoArgs == [items |-> <<>>, table |-> "None", cursor |-> NoCursor, limit |-> 0,
           incremental |-> FALSE, max_age_minutes |-> {}, tables |-> <<>>,
           date_column |-> "None",
           force |-> FALSE, endpoint |-> "None",
           headers |-> [limit |-> Missing, remaining |-> Missing, reset |-> Missing]]

\* A sync_metadata row: whether it exists, what its last_sync text is (the
\* isoformat of a naive local time, an empty string, or text that is not a
\* timestamp), the time a well-formed text denotes, and record_count.
NoMeta == [synced |-> FALSE, kind |-> "None", last_sync |-> 0, record_count |-> 0]

SyncMeta(kind, t, n) ==
    [synced |-> TRUE, kind |-> kind, last_sync |-> t, record_count |-> n]

\* ---------------------------------------------------------------------------
\* Initial state: a freshly constructed store on an empty database
\* ---------------------------------------------------------------------------
\* No transactions sync and no multi-table sync has run; with_retry has not
\* been called; the rate limiter has recorded nothing; no management method
\* has run; the client, where one is used, holds the store.
InitOther ==
    /\ pagination_time = NoDate
    /\ results = <<>>
    /\ upstream = [t \in {"orders", "dividends", "transactions"} |-> <<>>]
    /\ retry = [max_retries |-> 0, max_delay |-> 0, attempt |-> 0,
                calls |-> <<>>, sleeps |-> <<>>]
    /\ limiter = <<>>
    /\ sql_log = <<>>
    /\ data_store = enabled

Init ==
    /\ cache_freshness_minutes = DEFAULT_FRESHNESS_MINUTES
    /\ enabled \in BOOLEAN
    /\ db = [t \in VALID_TABLES |-> {}]
    /\ meta = [t \in VALID_TABLES |-> NoMeta]
    /\ now = 0
    /\ pc = "idle"
    /\ cursor = NoCursor
    /\ cutoff_dt = NoDate
    /\ all_items = <<>>
    /\ fetch_log = <<>>
    /\ args = NoArgs
    /\ ret = NoRet
    /\ InitOther

Idle == pc = "idle"

\* Time passes between calls (each call reads the clock at one point).
Tick ==
    /\ Idle
    /\ now < MaxNow
    /\ now' = now + 1
    /\ UNCHANGED <<other_vars, cache_freshness_minutes, cutoff_dt, enabled, db, meta, pc,
                   cursor, all_items, fetch_log, args, ret>>

\* ---------------------------------------------------------------------------
\* sync_orders
\* ---------------------------------------------------------------------------
\* Entry of sync_orders: the disabled early return, or the loop's locals.
SyncOrders ==
    /\ Idle
    /\ fetch_log' = <<>>
    /\ args' = NoArgs
    /\ IF ~enabled
       THEN /\ ret' = SyncResult("sync_orders", 0, 0, 0, now, "Cache is disabled")
            /\ UNCHANGED <<pc, cursor, all_items>>
       ELSE /\ pc' = "sync_orders"
            /\ cursor' = NoCursor
            /\ all_items' = <<>>
            /\ ret' = NoRet
    /\ UNCHANGED <<other_vars, cache_freshness_minutes, cutoff_dt, enabled, db, meta, now>>

\* Variant: a page shorter than the cap also ends the loop.
OrdersLoopExitOnShortPage(resp) ==
    IF resp.raised THEN "error"
    ELSE IF resp.items = <<>> THEN "empty"
    ELSE IF resp.next.kind = "none" THEN "last_page"
    ELSE IF Len(resp.items) < ORDERS_LIMIT_CAP THEN "last_page"
    ELSE IF resp.next.kind = "no_cursor" THEN "last_page"
    ELSE IF resp.next.kind = "bad_cursor" THEN "escape"
    ELSE "continue"

\* How one iteration of the while loop of sync_orders ends, given the
\* response of its fetch.
OrdersLoopExit(resp) ==
    IF resp.raised THEN "error"
    ELSE IF resp.items = <<>> THEN "empty"
    ELSE IF resp.next.kind = "none" THEN "last_page"
    ELSE IF resp.next.kind = "no_cursor" THEN "last_page"
    ELSE IF resp.next.kind = "bad_cursor" THEN "escape"
    ELSE "continue"

\* Variant: the records of a later page are put in front of the earlier ones.
OrdersCollectedInFront(all, resp) ==
    IF resp.raised \/ resp.items = <<>> THEN all ELSE resp.items \o all

\* all_orders after the iteration.
OrdersCollected(all, resp) ==
    IF resp.raised \/ resp.items = <<>> THEN all ELSE all \o resp.items

\* Variant: a pagination error discards what was fetched before it.
SyncOrdersBreakDiscarding(all, err) ==
    /\ pc' = "sync_orders_merge"
    /\ cursor' = NoCursor
    /\ all_items' = IF err = "None" THEN all ELSE <<>>
    /\ ret' = [NoRet EXCEPT !.error = err]
    /\ UNCHANGED <<db, meta>>

\* The loop ends: all_orders and pagination_error are kept for the code
\* that follows the loop.
SyncOrdersBreak(all, err) ==
    /\ pc' = "sync_orders_merge"
    /\ cursor' = NoCursor
    /\ all_items' = all
    /\ ret' = [NoRet EXCEPT !.error = err]
    /\ UNCHANGED <<db, meta>>

\* The loop continues with the cursor of nextPagePath.
SyncOrdersContinue(all, c) ==
    /\ pc' = "sync_orders"
    /\ cursor' = c
    /\ all_items' = all
    /\ UNCHANGED <<db, meta, ret>>

\* int(cursor_list[0]) raises outside the try block: the exception escapes.
SyncOrdersEscape ==
    /\ pc' = "idle"
    /\ cursor' = NoCursor
    /\ all_items' = <<>>
    /\ ret' = Raised("sync_orders", "ValueError")
    /\ UNCHANGED <<db, meta>>

\* One iteration of the while loop of sync_orders.
SyncOrdersFetchFrom(responses) ==
    /\ pc = "sync_orders"
    /\ \E resp \in responses :
        LET exit == OrdersLoopExit(resp)
            all == OrdersCollected(all_items, resp)
        IN  /\ Len(fetch_log) + 1 = MaxFetches => exit # "continue"
            /\ fetch_log' = Append(fetch_log,
                                   OrdersFetched(cursor, SYNC_ORDERS_LIMIT, resp))
            /\ CASE exit = "error" -> SyncOrdersBreak(all, "Pagination stopped")
                 [] exit \in {"empty", "last_page"} -> SyncOrdersBreak(all, "None")
                 [] exit = "escape" -> SyncOrdersEscape
                 [] exit = "continue" -> SyncOrdersContinue(all, resp.next.cursor)
    /\ UNCHANGED <<other_vars, cache_freshness_minutes, cutoff_dt, enabled, now, args>>

SyncOrdersFetch == SyncOrdersFetchFrom(OrderResponses)

\* The code of sync_orders after the loop: upsert, metadata, result.
SyncOrdersMerge ==
    /\ pc = "sync_orders_merge"
    /\ LET up == UpsertOrders(db["orders"], all_items)
           total == Cardinality(RowsOf(up.tbl))
       IN  /\ db' = [db EXCEPT !["orders"] = up.tbl]
           /\ meta' = [meta EXCEPT !["orders"] =
                        SyncMeta("naive", now, total)]
           /\ ret' = [SyncResult("sync_orders", Len(all_items), up.inserted,
                                 total, now, ret.error)
                          EXCEPT !.warnings = up.warnings, !.skips = up.skips]
    /\ pc' = "idle"
    /\ all_items' = <<>>
    /\ UNCHANGED <<other_vars, cache_freshness_minutes, cutoff_dt, enabled, now, cursor, fetch_log, args>>

\* ---------------------------------------------------------------------------
\* Direct store operations
\* ---------------------------------------------------------------------------
\* _upsert_orders(orders) called on its own, orders taken from lists.
UpsertOrdersCallWith(lists) ==
    /\ Idle
    /\ enabled
    /\ \E orders \in lists :
        LET up == UpsertOrders(db["orders"], orders)
        IN  /\ args' = [NoArgs EXCEPT !.items = orders]
            /\ db' = [db EXCEPT !["orders"] = up.tbl]
            /\ ret' = [NoRet EXCEPT !.op = "_upsert_orders", !.count = up.inserted,
                                    !.warnings = up.warnings, !.skips = up.skips]
    /\ fetch_log' = <<>>
    /\ UNCHANGED <<other_vars, cache_freshness_minutes, cutoff_dt, enabled, meta, now, pc, cursor, all_items>>

UpsertOrdersCall == UpsertOrdersCallWith(OrderLists)

\* clear_cache(table): table = "None" clears every table and the metadata.
ClearCache ==
    /\ Idle
    /\ enabled
    /\ \E table \in VALID_TABLES \cup {"None"} :
        LET tables == IF table = "None" THEN VALID_TABLES ELSE {table}
        IN  /\ args' = [NoArgs EXCEPT !.table = table]
            /\ db' = [t \in VALID_TABLES |->
                        IF t \in tables
                        THEN {r \in db[t] : r.account_id # ACCOUNT_ID}
                        ELSE db[t]]
            /\ meta' = IF table = "None"
                       THEN [t \in VALID_TABLES |-> NoMeta]
                       ELSE meta
            /\ ret' = [NoRet EXCEPT !.op = "clear_cache",
                          !.count = Cardinality(UNION {RowsOf(db[t]) : t \in tables})]
    /\ fetch_log' = <<>>
    /\ UNCHANGED <<other_vars, cache_freshness_minutes, cutoff_dt, enabled, now, pc, cursor, all_items>>

\* The get_order_history tool: one request with the caller's cursor and limit.
GetOrderHistory ==
    /\ Idle
    /\ \E c \in {NoCursor} \cup Cursors, limit \in {1, 8, 9, 50},
          resp \in {RaisedResponse, EmptyResponse} :
        /\ args' = [NoArgs EXCEPT !.cursor = c, !.limit = limit]
        /\ fetch_log' = <<OrdersFetched(c, limit, resp)>>
        /\ ret' = IF resp.raised THEN Raised("get_order_history", "Exception")
                  ELSE [NoRet EXCEPT !.op = "get_order_history"]
    /\ UNCHANGED <<other_vars, cache_freshness_minutes, cutoff_dt, enabled, db, meta, now, pc, cursor, all_items>>

Next ==
    \/ SyncOrders
    \/ SyncOrdersFetch
    \/ SyncOrdersMerge
    \/ UpsertOrdersCall
    \/ ClearCache
    \/ GetOrderHistory

Spec == Init /\ [][Next]_vars

\* ---------------------------------------------------------------------------
\* Orders of one id met several times: in one batch, in one sync
\* ---------------------------------------------------------------------------
MaxBatchLen == 2     \* records of one direct batch

\* The order of id 1 in each of its lives, told apart by the fill price.
RepeatedOrderItems ==
    {Order(1, "NEW", 150), Order(1, "NEW", 999), Order(1, "FILLED", 150),
     Order(1, "CANCELLED", 150)}

\* Records of a direct batch: order 1 in three statuses, and a second order.
BatchOrderItems ==
    {Order(1, "NEW", 150), Order(1, "FILLED", 150), Order(1, "CANCELLED", 150),
     Order(2, "NEW", 150)}

OrderBatches == SeqsUpTo(BatchOrderItems, MaxBatchLen)

\* Upstream pages: empty, one record, or an open record followed by another.
RepeatedOrderPages ==
    SeqsUpTo(RepeatedOrderItems, 1)
    \cup {<<a, b>> : a \in {o \in RepeatedOrderItems : o.status = "NEW"},
                     b \in RepeatedOrderItems}

RepeatedOrderResponses ==
    {RaisedResponse}
    \cup {[raised |-> FALSE, items |-> p,
           next |-> [kind |-> k, cursor |-> IF k = "cursor" THEN 1 ELSE NoCursor]] :
              p \in RepeatedOrderPages, k \in {"none", "cursor"}}

\* The orders table before: empty, or holding order 1 open or filled.
InitRepeatedOrders ==
    /\ cache_freshness_minutes = DEFAULT_FRESHNESS_MINUTES
    /\ enabled = TRUE
    /\ \E stored \in {{}, {OrderRow(Order(1, "NEW", 150))},
                       {OrderRow(Order(1, "FILLED", 999))}} :
          db = [t \in VALID_TABLES |-> IF t = "orders" THEN stored ELSE {}]
    /\ meta = [t \in VALID_TABLES |-> NoMeta]
    /\ now = 0
    /\ pc = "idle"
    /\ cursor = NoCursor
    /\ cutoff_dt = NoDate
    /\ all_items = <<>>
    /\ fetch_log = <<>>
    /\ args = NoArgs
    /\ ret = NoRet
    /\ InitOther

UpsertOrdersBatch == UpsertOrdersCallWith(OrderBatches)

SyncOrdersFetchRepeated == SyncOrdersFetchFrom(RepeatedOrderResponses)

NextRepeatedOrders ==
    \/ UpsertOrdersBatch
    \/ SyncOrders
    \/ SyncOrdersFetchRepeated
    \/ SyncOrdersMerge

SpecRepeatedOrders == InitRepeatedOrders /\ [][NextRepeatedOrders]_vars

\* ---------------------------------------------------------------------------
\* Dividends: records, pages and the dividends table
\* ---------------------------------------------------------------------------
MaxDividendFetches == 2     \* page fetches of one dividends sync

DIVIDENDS_LIMIT_CAP == 50

SYNC_DIVIDENDS_LIMIT == 50

NoReference == "None"

\* The instant a timestamp denotes (what datetime comparison compares).
Instant(ts) == ts.wall - ts.off

\* Order of the isoformat() strings of two timestamps (what SQL MAX compares):
\* the wall-clock text first, then the text of the offset.
IsoLeq(a, b) == a.wall < b.wall \/ (a.wall = b.wall /\ a.off <= b.off)

Dividend(ref, ts) == [reference |-> ref, paid_on |-> ts]

\* Ts(2,0) and Ts(3,1) are the same instant; Ts(3,2) is the instant of Ts(1,0).
DividendItems ==
    {Dividend("r1", ts) : ts \in {Ts(1, 0), Ts(2, 0)}}
        \cup {Dividend("r2", ts) : ts \in {Ts(1, 0), Ts(2, 0), Ts(3, 1), Ts(3, 2), NoDate}}
        \cup {Dividend(NoReference, Ts(2, 0))}

DividendPages ==
    {<<d>> : d \in DividendItems}
        \cup { <<Dividend("r2", Ts(2, 0)), Dividend("r1", Ts(1, 0))>>,
               <<Dividend("r1", Ts(2, 0)), Dividend("r2", Ts(2, 0))>>,
               <<Dividend("r2", Ts(3, 1)), Dividend("r1", Ts(1, 0))>>,
               <<Dividend("r1", Ts(1, 0)), Dividend("r2", Ts(2, 0))>>,
               <<Dividend("r1", Ts(2, 0)), Dividend("r1", Ts(1, 0))>>,
               <<Dividend("r2", Ts(2, 0)), Dividend(NoReference, Ts(2, 0))>> }

\* Argument lists of a direct _upsert_dividends call.
DividendLists == SeqsUpTo(DividendItems, 1)

DividendResponses ==
    {RaisedResponse, EmptyResponse}
        \cup {[raised |-> FALSE, items |-> p, next |-> n] :
                p \in DividendPages, n \in NextPagePaths}

\* Primary key of the dividends table.
DividendsPK(r) == r.reference

DividendRow(d) ==
    [reference |-> d.reference, account_id |-> ACCOUNT_ID, paid_on |-> d.paid_on]

InsertOrReplaceDividend(tbl, row) ==
    {r \in tbl : DividendsPK(r) # DividendsPK(row)} \cup {row}

\* One iteration of the for loop of _upsert_dividends.
UpsertOneDividend(st, d) ==
    IF d.reference = NoReference
    THEN st
    ELSE [st EXCEPT !.tbl = InsertOrReplaceDividend(st.tbl, DividendRow(d)),
                    !.inserted = st.inserted + 1]

RECURSIVE UpsertDividendsFrom(_, _)
UpsertDividendsFrom(st, ds) ==
    IF ds = <<>> THEN st
    ELSE UpsertDividendsFrom(UpsertOneDividend(st, Head(ds)), Tail(ds))

UpsertDividends(tbl, ds) == UpsertDividendsFrom(UpsertState(tbl), ds)

\* _get_newest_record_date("dividends", "paid_on"): SELECT MAX(paid_on) over
\* the account's rows, NULLs ignored; NoDate when there is none.
NewestRecordDate(tbl) ==
    LET dates == {r.paid_on : r \in RowsOf(tbl)} \ {NoDate}
    IN  IF dates = {} THEN NoDate
        ELSE CHOOSE m \in dates : \A d \in dates : IsoLeq(d, m)

Max(a, b) == IF a > b THEN a ELSE b

\* Trading212Client.get_dividends: params["limit"] = min(50, max(1, limit))
DividendsRequestLimit(limit) == Min(DIVIDENDS_LIMIT_CAP, Max(1, limit))

\* Variant: only records strictly newer than the cutoff are kept.
NewItemsStrictlyNewer(cutoff, items) ==
    SelectSeq(items, LAMBDA d : d.paid_on # NoDate
                                  /\ Instant(d.paid_on) > Instant(cutoff))

\* new_items of sync_dividends: d.paidOn and d.paidOn >= cutoff_dt
NewItems(cutoff, items) ==
    SelectSeq(items, LAMBDA d : d.paid_on # NoDate
                                  /\ Instant(d.paid_on) >= Instant(cutoff))

\* What one iteration of the loop of sync_dividends adds to all_dividends.
DividendsKept(cutoff, resp) ==
    IF resp.raised THEN <<>>
    ELSE IF cutoff # NoDate THEN NewItems(cutoff, resp.items)
    ELSE resp.items

\* Variant: a page with rejected records does not end the loop.
DividendsLoopExitNoEarlyStop(cutoff, resp) ==
    IF resp.raised THEN "error"
    ELSE IF resp.items = <<>> THEN "empty"
    ELSE IF resp.next.kind = "none" THEN "last_page"
    ELSE IF resp.next.kind = "no_cursor" THEN "last_page"
    ELSE IF resp.next.kind = "bad_cursor" THEN "error"
    ELSE "continue"

\* How one iteration of the while loop of sync_dividends ends.  The loop is
\* inside the try block, so a raising fetch and int() of a bad cursor both
\* reach the except clause.
DividendsLoopExit(cutoff, resp) ==
    IF resp.raised THEN "error"
    ELSE IF resp.items = <<>> THEN "empty"
    ELSE IF cutoff # NoDate
            /\ Len(NewItems(cutoff, resp.items)) < Len(resp.items) THEN "cached"
    ELSE IF resp.next.kind = "none" THEN "last_page"
    ELSE IF resp.next.kind = "no_cursor" THEN "last_page"
    ELSE IF resp.next.kind = "bad_cursor" THEN "error"
    ELSE "continue"

DividendsCount(d) == Cardinality(RowsOf(d["dividends"]))

\* Entry of sync_dividends: the disabled early return, or the cutoff and the
\* loop's locals.
SyncDividends ==
    /\ Idle
    /\ fetch_log' = <<>>
    /\ \E incremental \in BOOLEAN :
        /\ args' = [NoArgs EXCEPT !.incremental = incremental]
        /\ IF ~enabled
           THEN /\ ret' = SyncResult("sync_dividends", 0, 0, 0, now, "Cache is disabled")
                /\ UNCHANGED <<pc, cursor, cutoff_dt, all_items>>
           ELSE /\ pc' = "sync_dividends"
                /\ cursor' = NoCursor
                /\ cutoff_dt' = IF incremental
                                THEN NewestRecordDate(db["dividends"])
                                ELSE NoDate
                /\ all_items' = <<>>
                /\ ret' = NoRet
    /\ UNCHANGED <<other_vars, cache_freshness_minutes, enabled, db, meta, now>>

\* One iteration of the while loop of sync_dividends; an exception ends the
\* call in the except clause, with nothing written.
SyncDividendsFetch ==
    /\ pc = "sync_dividends"
    /\ \E resp \in DividendResponses :
        LET exit == DividendsLoopExit(cutoff_dt, resp)
            kept == DividendsKept(cutoff_dt, resp)
        IN  /\ Len(fetch_log) + 1 = MaxDividendFetches => exit # "continue"
            /\ fetch_log' = Append(fetch_log,
                    Fetched("dividends", cursor,
                            DividendsRequestLimit(SYNC_DIVIDENDS_LIMIT), resp, Len(kept)))
            /\ CASE exit = "error" ->
                      /\ pc' = "idle"
                      /\ cursor' = NoCursor
                      /\ cutoff_dt' = NoDate
                      /\ all_items' = <<>>
                      /\ ret' = SyncResult("sync_dividends", 0, 0, DividendsCount(db),
                                           now, "Exception")
                 [] exit \in {"empty", "cached", "last_page"} ->
                      /\ pc' = "sync_dividends_merge"
                      /\ cursor' = NoCursor
                      /\ all_items' = all_items \o kept
                      /\ UNCHANGED <<cutoff_dt, ret>>
                 [] exit = "continue" ->
                      /\ cursor' = resp.next.cursor
                      /\ all_items' = all_items \o kept
                      /\ UNCHANGED <<pc, cutoff_dt, ret>>
    /\ UNCHANGED <<other_vars, cache_freshness_minutes, enabled, db, meta, now, args>>

\* The code of sync_dividends after the loop: upsert, metadata, result.
SyncDividendsMerge ==
    /\ pc = "sync_dividends_merge"
    /\ LET up == UpsertDividends(db["dividends"], all_items)
           total == Cardinality(RowsOf(up.tbl))
       IN  /\ db' = [db EXCEPT !["dividends"] = up.tbl]
           /\ meta' = [meta EXCEPT !["dividends"] =
                        SyncMeta("naive", now, total)]
           /\ ret' = SyncResult("sync_dividends", Len(all_items), up.inserted,
                                total, now, "None")
    /\ pc' = "idle"
    /\ cutoff_dt' = NoDate
    /\ all_items' = <<>>
    /\ UNCHANGED <<other_vars, cache_freshness_minutes, enabled, now, cursor, fetch_log, args>>

\* _upsert_dividends(dividends) called on its own.
UpsertDividendsCall ==
    /\ Idle
    /\ enabled
    /\ \E ds \in DividendLists :
        LET up == UpsertDividends(db["dividends"], ds)
        IN  /\ args' = [NoArgs EXCEPT !.items = ds]
            /\ db' = [db EXCEPT !["dividends"] = up.tbl]
            /\ ret' = [NoRet EXCEPT !.op = "_upsert_dividends", !.count = up.inserted]
    /\ fetch_log' = <<>>
    /\ UNCHANGED <<other_vars, cache_freshness_minutes, cutoff_dt, enabled, meta, now, pc, cursor, all_items>>

NextDividends ==
    \/ SyncDividends
    \/ SyncDividendsFetch
    \/ SyncDividendsMerge
    \/ UpsertDividendsCall
    \/ ClearCache

SpecDividends == Init /\ [][NextDividends]_vars

\* ---------------------------------------------------------------------------
\* Transactions: records, pages and the transactions table
\* ---------------------------------------------------------------------------
MaxTransactionFetches == 3     \* page fetches of one transactions sync

SYNC_TRANSACTIONS_LIMIT == 50

\* Time tokens the upstream puts into nextPagePath.
TimeTokens == {Ts(5, 0), Ts(6, 0)}

\* Cursor tokens the upstream puts into nextPagePath (opaque strings in the
\* code; two distinct ones here).
TransactionCursors == {1, 2}

Transaction(ref, ts) == [reference |-> ref, date_time |-> ts]

\* Ts(3,2) is the instant of Ts(1,0), and its isoformat() text is the greatest.
TransactionItems ==
    { Transaction("t1", Ts(1, 0)), Transaction("t1", Ts(2, 0)),
      Transaction("t2", Ts(3, 2)), Transaction(NoReference, Ts(2, 0)) }

TransactionPages ==
    { <<Transaction("t1", Ts(1, 0))>>,
      <<Transaction("t2", Ts(3, 2))>>,
      <<Transaction("t1", Ts(2, 0)), Transaction(NoReference, Ts(2, 0))>> }

\* Argument lists of a direct _upsert_transactions call.
TransactionLists == {<<>>} \cup {<<x>> : x \in TransactionItems}

\* nextPagePath of a transactions page: absent, a path with a query string
\* ("path") or a bare query string ("query"); cursor and time are the values
\* of its cursor= and time= parameters, NoCursor / NoDate when it has none.
TransactionNextPagePaths ==
    { [kind |-> "none", cursor |-> NoCursor, time |-> NoDate],
      [kind |-> "query", cursor |-> NoCursor, time |-> Ts(5, 0)],
      [kind |-> "path", cursor |-> 1, time |-> Ts(5, 0)],
      [kind |-> "query", cursor |-> 1, time |-> Ts(5, 0)],
      [kind |-> "query", cursor |-> 2, time |-> Ts(6, 0)],
      [kind |-> "query", cursor |-> 2, time |-> NoDate] }

TransactionResponses ==
    { [raised |-> TRUE, items |-> <<>>,
       next |-> [kind |-> "none", cursor |-> NoCursor, time |-> NoDate]],
      [raised |-> FALSE, items |-> <<>>,
       next |-> [kind |-> "none", cursor |-> NoCursor, time |-> NoDate]] }
        \cup {[raised |-> FALSE, items |-> p, next |-> n] :
                p \in TransactionPages, n \in TransactionNextPagePaths}

\* Primary key of the transactions table.
TransactionsPK(r) == r.reference

TransactionRow(x) ==
    [reference |-> x.reference, account_id |-> ACCOUNT_ID, date_time |-> x.date_time]

InsertOrReplaceTransaction(tbl, row) ==
    {r \in tbl : TransactionsPK(r) # TransactionsPK(row)} \cup {row}

\* Variant: a record without a reference is written like any other.
UpsertOneTransactionUnguarded(st, x) ==
    [st EXCEPT !.tbl = InsertOrReplaceTransaction(st.tbl, TransactionRow(x)),
               !.inserted = st.inserted + 1]

\* One iteration of the for loop of _upsert_transactions.
UpsertOneTransaction(st, x) ==
    IF x.reference = NoReference
    THEN st
    ELSE [st EXCEPT !.tbl = InsertOrReplaceTransaction(st.tbl, TransactionRow(x)),
                    !.inserted = st.inserted + 1]

RECURSIVE UpsertTransactionsFrom(_, _)
UpsertTransactionsFrom(st, xs) ==
    IF xs = <<>> THEN st
    ELSE UpsertTransactionsFrom(UpsertOneTransaction(st, Head(xs)), Tail(xs))

\* _upsert_transactions(transactions) on the table tbl.
UpsertTransactions(tbl, xs) == UpsertTransactionsFrom(UpsertState(tbl), xs)

\* _get_newest_record_date("transactions", "datetime"): SELECT MAX(datetime)
\* over the account's rows, NULLs ignored; NoDate when there is none.
NewestTransactionDate(tbl) ==
    LET dates == {r.date_time : r \in RowsOf(tbl)} \ {NoDate}
    IN  IF dates = {} THEN NoDate
        ELSE CHOOSE m \in dates : \A d \in dates : IsoLeq(d, m)

\* Variant: the newest stored datetime is the filter of a full sync too.
ApiTimeFromAlways(incremental, tbl) == NewestTransactionDate(tbl)

\* api_time_from of sync_transactions.
ApiTimeFrom(incremental, tbl) ==
    IF incremental THEN NewestTransactionDate(tbl) ELSE NoDate

\* Variant: the time token of nextPagePath is not carried to the next request.
EffectiveTimeWithoutToken(ptime, api_time_from) == api_time_from

\* effective_time of one iteration: the time token of the previous page's
\* nextPagePath when there is one, else api_time_from.
EffectiveTime(ptime, api_time_from) ==
    IF ptime # NoDate THEN ptime ELSE api_time_from

\* Trading212Client.get_history_transactions: the request that goes out for
\* (cursor, time_from, limit), and what came back.
TransactionsFetched(c, t, limit, resp) ==
    [endpoint |-> "transactions", cursor |-> c, time |-> t, limit |-> limit,
     n |-> Len(resp.items), kept |-> Len(resp.items), next |-> resp.next.kind,
     next_cursor |-> resp.next.cursor, next_time |-> resp.next.time,
     raised |-> resp.raised]

\* How one iteration of the while loop of sync_transactions ends.
TransactionsLoopExit(resp) ==
    IF resp.raised THEN "error"
    ELSE IF resp.items = <<>> THEN "empty"
    ELSE IF resp.next.kind = "none" THEN "last_page"
    ELSE IF resp.next.cursor = NoCursor THEN "last_page"
    ELSE "continue"

TransactionsCount(d) == Cardinality(RowsOf(d["transactions"]))

\* Entry of sync_transactions: the disabled early return, or api_time_from
\* (kept in cutoff_dt) and the loop's locals.
SyncTransactions ==
    /\ Idle
    /\ fetch_log' = <<>>
    /\ \E incremental \in BOOLEAN :
        /\ args' = [NoArgs EXCEPT !.incremental = incremental]
        /\ IF ~enabled
           THEN /\ ret' = SyncResult("sync_transactions", 0, 0, 0, now,
                                     "Cache is disabled")
                /\ UNCHANGED <<pc, cursor, cutoff_dt, all_items, pagination_time>>
           ELSE /\ pc' = "sync_transactions"
                /\ cursor' = NoCursor
                /\ pagination_time' = NoDate
                /\ cutoff_dt' = ApiTimeFrom(incremental, db["transactions"])
                /\ all_items' = <<>>
                /\ ret' = NoRet
    /\ UNCHANGED <<results, upstream, http_vars, cache_vars, cache_freshness_minutes, enabled, db, meta, now>>

\* One iteration of the while loop of sync_transactions; an exception ends
\* the call in the except clause, with nothing written.
SyncTransactionsFetch ==
    /\ pc = "sync_transactions"
    /\ \E resp \in TransactionResponses :
        LET exit == TransactionsLoopExit(resp)
        IN  /\ Len(fetch_log) + 1 = MaxTransactionFetches => exit # "continue"
            /\ fetch_log' = Append(fetch_log,
                    TransactionsFetched(cursor, EffectiveTime(pagination_time, cutoff_dt),
                                        SYNC_TRANSACTIONS_LIMIT, resp))
            /\ CASE exit = "error" ->
                      /\ pc' = "idle"
                      /\ cursor' = NoCursor
                      /\ pagination_time' = NoDate
                      /\ cutoff_dt' = NoDate
                      /\ all_items' = <<>>
                      /\ ret' = SyncResult("sync_transactions", 0, 0,
                                           TransactionsCount(db), now, "Exception")
                 [] exit = "empty" ->
                      /\ pc' = "sync_transactions_merge"
                      /\ UNCHANGED <<cursor, pagination_time, cutoff_dt, all_items, ret>>
                 [] exit = "last_page" ->
                      /\ pc' = "sync_transactions_merge"
                      /\ cursor' = IF resp.next.kind = "none"
                                   THEN cursor ELSE resp.next.cursor
                      /\ pagination_time' = IF resp.next.kind = "none"
                                            THEN pagination_time ELSE resp.next.time
                      /\ all_items' = all_items \o resp.items
                      /\ UNCHANGED <<cutoff_dt, ret>>
                 [] exit = "continue" ->
                      /\ cursor' = resp.next.cursor
                      /\ pagination_time' = resp.next.time
                      /\ all_items' = all_items \o resp.items
                      /\ UNCHANGED <<pc, cutoff_dt, ret>>
    /\ UNCHANGED <<results, upstream, http_vars, cache_vars, cache_freshness_minutes, enabled, db, meta, now, args>>

\* The code of sync_transactions after the loop: upsert, metadata, result.
SyncTransactionsMerge ==
    /\ pc = "sync_transactions_merge"
    /\ LET up == UpsertTransactions(db["transactions"], all_items)
           total == Cardinality(RowsOf(up.tbl))
       IN  /\ db' = [db EXCEPT !["transactions"] = up.tbl]
           /\ meta' = [meta EXCEPT !["transactions"] =
                        SyncMeta("naive", now, total)]
           /\ ret' = SyncResult("sync_transactions", Len(all_items), up.inserted,
                                total, now, "None")
    /\ pc' = "idle"
    /\ cursor' = NoCursor
    /\ pagination_time' = NoDate
    /\ cutoff_dt' = NoDate
    /\ all_items' = <<>>
    /\ UNCHANGED <<results, upstream, http_vars, cache_vars, cache_freshness_minutes, enabled, now, fetch_log, args>>

\* _upsert_transactions(transactions) called on its own.
UpsertTransactionsCall ==
    /\ Idle
    /\ enabled
    /\ \E xs \in TransactionLists :
        LET up == UpsertTransactions(db["transactions"], xs)
        IN  /\ args' = [NoArgs EXCEPT !.items = xs]
            /\ db' = [db EXCEPT !["transactions"] = up.tbl]
            /\ ret' = [NoRet EXCEPT !.op = "_upsert_transactions",
                                    !.count = up.inserted]
    /\ fetch_log' = <<>>
    /\ UNCHANGED <<other_vars, cache_freshness_minutes, cutoff_dt, enabled, meta,
                   now, pc, cursor, all_items>>

NextTransactions ==
    \/ SyncTransactions
    \/ SyncTransactionsFetch
    \/ SyncTransactionsMerge
    \/ UpsertTransactionsCall
    \/ ClearCache

SpecTransactions == Init /\ [][NextTransactions]_vars

\* ---------------------------------------------------------------------------
\* Syncing several tables in one call
\* ---------------------------------------------------------------------------
\* What the upstream will answer to the successive requests of one call, per
\* endpoint.
OrderScripts ==
    { <<>>,
      <<RaisedResponse>>,
      <<[raised |-> FALSE, items |-> <<Order(1, "FILLED", 150)>>,
         next |-> [kind |-> "bad_cursor", cursor |-> NoCursor]]>>,
      <<[raised |-> FALSE, items |-> <<Order(1, "FILLED", 150)>>,
         next |-> [kind |-> "cursor", cursor |-> 1]],
        RaisedResponse>> }

DividendScripts ==
    { <<>>,
      <<RaisedResponse>>,
      <<[raised |-> FALSE,
         items |-> <<Dividend("r2", Ts(2, 0)), Dividend(NoReference, Ts(2, 0))>>,
         next |-> [kind |-> "none", cursor |-> NoCursor]]>> }

TransactionScripts ==
    { <<>>,
      <<[raised |-> TRUE, items |-> <<>>,
         next |-> [kind |-> "none", cursor |-> NoCursor, time |-> NoDate]]>>,
      <<[raised |-> FALSE,
         items |-> <<Transaction("t1", Ts(2, 0)), Transaction(NoReference, Ts(2, 0))>>,
         next |-> [kind |-> "query", cursor |-> 1, time |-> Ts(5, 0)]],
        [raised |-> FALSE, items |-> <<Transaction("t2", Ts(3, 2))>>,
         next |-> [kind |-> "none", cursor |-> NoCursor, time |-> NoDate]]>> }

Scripts ==
    { [orders |-> o, dividends |-> d, transactions |-> x] :
        o \in OrderScripts, d \in DividendScripts, x \in TransactionScripts }

\* The state of a pagination loop: the records collected, the locals cursor
\* and pagination_time, the requests made, how the last iteration ended
\* ("continue" while the loop goes on).
LoopState == [all |-> <<>>, cursor |-> NoCursor, ptime |-> NoDate, log |-> <<>>,
              exit |-> "continue"]

\* The while loop of sync_orders against the answers resps.
RECURSIVE SyncOrdersLoop(_, _)
SyncOrdersLoop(st, resps) ==
    IF resps = <<>> \/ st.exit # "continue" THEN st
    ELSE LET resp == Head(resps)
             exit == OrdersLoopExit(resp)
         IN  SyncOrdersLoop(
                 [st EXCEPT !.all = OrdersCollected(st.all, resp),
                            !.cursor = IF exit = "continue" THEN resp.next.cursor ELSE @,
                            !.log = Append(@, OrdersFetched(st.cursor, SYNC_ORDERS_LIMIT, resp)),
                            !.exit = exit],
                 Tail(resps))

\* What one call of a sync leaves: the table, its sync_metadata row, the
\* requests made, the value returned (or the exception raised), and how its
\* loop ended ("continue" when the answers ran out before it did).
SyncOutcome(tbl, m, log, r, exit) ==
    [tbl |-> tbl, meta |-> m, log |-> log, ret |-> r, exit |-> exit]

\* sync_orders(api_client) as a whole.
SyncOrdersRun(en, tbl, m, t, resps) ==
    IF ~en
    THEN SyncOutcome(tbl, m, <<>>,
                     SyncResult("sync_orders", 0, 0, 0, t, "Cache is disabled"),
                     "disabled")
    ELSE LET st == SyncOrdersLoop(LoopState, resps)
             up == UpsertOrders(tbl, st.all)
             total == Cardinality(RowsOf(up.tbl))
         IN  IF st.exit = "escape"
             THEN SyncOutcome(tbl, m, st.log, Raised("sync_orders", "ValueError"),
                              st.exit)
             ELSE SyncOutcome(up.tbl, SyncMeta("naive", t, total), st.log,
                      [SyncResult("sync_orders", Len(st.all), up.inserted, total, t,
                                  IF st.exit = "error" THEN "Pagination stopped"
                                  ELSE "None")
                           EXCEPT !.warnings = up.warnings, !.skips = up.skips],
                      st.exit)

\* The while loop of sync_dividends against the answers resps.
RECURSIVE SyncDividendsLoop(_, _, _)
SyncDividendsLoop(st, cutoff, resps) ==
    IF resps = <<>> \/ st.exit # "continue" THEN st
    ELSE LET resp == Head(resps)
             exit == DividendsLoopExit(cutoff, resp)
             kept == DividendsKept(cutoff, resp)
         IN  SyncDividendsLoop(
                 [st EXCEPT !.all = @ \o kept,
                            !.cursor = IF exit = "continue" THEN resp.next.cursor ELSE @,
                            !.log = Append(@, Fetched("dividends", st.cursor,
                                        DividendsRequestLimit(SYNC_DIVIDENDS_LIMIT),
                                        resp, Len(kept))),
                            !.exit = exit],
                 cutoff, Tail(resps))

\* Variant: the records fetched before a failing fetch are merged, as in the
\* orders sync.
SyncDividendsRunMergingPartial(en, tbl, m, t, incremental, resps) ==
    IF ~en
    THEN SyncOutcome(tbl, m, <<>>,
                     SyncResult("sync_dividends", 0, 0, 0, t, "Cache is disabled"),
                     "disabled")
    ELSE LET cutoff == IF incremental THEN NewestRecordDate(tbl) ELSE NoDate
             st == SyncDividendsLoop(LoopState, cutoff, resps)
             up == UpsertDividends(tbl, st.all)
             total == Cardinality(RowsOf(up.tbl))
         IN  SyncOutcome(up.tbl, SyncMeta("naive", t, total), st.log,
                  SyncResult("sync_dividends", Len(st.all), up.inserted, total, t,
                             IF st.exit = "error" THEN "Exception" ELSE "None"),
                  st.exit)

\* sync_dividends(api_client, incremental) as a whole.
SyncDividendsRun(en, tbl, m, t, incremental, resps) ==
    IF ~en
    THEN SyncOutcome(tbl, m, <<>>,
                     SyncResult("sync_dividends", 0, 0, 0, t, "Cache is disabled"),
                     "disabled")
    ELSE LET cutoff == IF incremental THEN NewestRecordDate(tbl) ELSE NoDate
             st == SyncDividendsLoop(LoopState, cutoff, resps)
             up == UpsertDividends(tbl, st.all)
             total == Cardinality(RowsOf(up.tbl))
         IN  IF st.exit = "error"
             THEN SyncOutcome(tbl, m, st.log,
                      SyncResult("sync_dividends", 0, 0, Cardinality(RowsOf(tbl)),
                                 t, "Exception"),
                      st.exit)
             ELSE SyncOutcome(up.tbl, SyncMeta("naive", t, total), st.log,
                      SyncResult("sync_dividends", Len(st.all), up.inserted, total,
                                 t, "None"),
                      st.exit)

\* The while loop of sync_transactions against the answers resps.
RECURSIVE SyncTransactionsLoop(_, _, _)
SyncTransactionsLoop(st, api_time_from, resps) ==
    IF resps = <<>> \/ st.exit # "continue" THEN st
    ELSE LET resp == Head(resps)
             exit == TransactionsLoopExit(resp)
         IN  SyncTransactionsLoop(
                 [st EXCEPT !.all = IF exit \in {"error", "empty"} THEN @
                                    ELSE @ \o resp.items,
                            !.cursor = IF exit = "continue" THEN resp.next.cursor ELSE @,
                            !.ptime = IF exit = "continue" THEN resp.next.time ELSE @,
                            !.log = Append(@, TransactionsFetched(st.cursor,
                                        EffectiveTime(st.ptime, api_time_from),
                                        SYNC_TRANSACTIONS_LIMIT, resp)),
                            !.exit = exit],
                 api_time_from, Tail(resps))

\* sync_transactions(api_client, incremental) as a whole.
SyncTransactionsRun(en, tbl, m, t, incremental, resps) ==
    IF ~en
    THEN SyncOutcome(tbl, m, <<>>,
                     SyncResult("sync_transactions", 0, 0, 0, t, "Cache is disabled"),
                     "disabled")
    ELSE LET st == SyncTransactionsLoop(LoopState, ApiTimeFrom(incremental, tbl), resps)
             up == UpsertTransactions(tbl, st.all)
             total == Cardinality(RowsOf(up.tbl))
         IN  IF st.exit = "error"
             THEN SyncOutcome(tbl, m, st.log,
                      SyncResult("sync_transactions", 0, 0, Cardinality(RowsOf(tbl)),
                                 t, "Exception"),
                      st.exit)
             ELSE SyncOutcome(up.tbl, SyncMeta("naive", t, total), st.log,
                      SyncResult("sync_transactions", Len(st.all), up.inserted, total,
                                 t, "None"),
                      st.exit)

\* Variant: the syncs run on a disabled store as on an enabled one.
SyncTableRunIgnoringDisabled(tb, en, d, m, t, up) ==
    CASE tb = "orders" -> SyncOrdersRun(TRUE, d[tb], m[tb], t, up[tb])
      [] tb = "dividends" -> SyncDividendsRun(TRUE, d[tb], m[tb], t, TRUE, up[tb])
      [] tb = "transactions" -> SyncTransactionsRun(TRUE, d[tb], m[tb], t, TRUE, up[tb])

\* sync_all and sync_historical_data call the sync of table tb with the
\* default incremental = True.
SyncTableRun(tb, en, d, m, t, up) ==
    CASE tb = "orders" -> SyncOrdersRun(en, d[tb], m[tb], t, up[tb])
      [] tb = "dividends" -> SyncDividendsRun(en, d[tb], m[tb], t, TRUE, up[tb])
      [] tb = "transactions" -> SyncTransactionsRun(en, d[tb], m[tb], t, TRUE, up[tb])

\* The state of a call that syncs tables one after the other: storage, the
\* dict of results so far, the requests made, and the exception that ended
\* the call ("None" while there is none).
CallState(d, m) == [db |-> d, meta |-> m, results |-> <<>>, log |-> <<>>,
                    raised |-> "None", unanswered |-> FALSE]

\* The tables are synced in order, each result stored under the table's
\* name; an exception raised by one sync ends the call there.
RECURSIVE SyncTables(_, _, _, _, _)
SyncTables(acc, tables, en, t, up) ==
    IF tables = <<>> \/ acc.raised # "None" THEN acc
    ELSE LET tb == Head(tables)
             r == SyncTableRun(tb, en, acc.db, acc.meta, t, up)
         IN  IF r.ret.raised
             THEN [acc EXCEPT !.log = @ \o r.log, !.raised = r.ret.error]
             ELSE SyncTables(
                      [acc EXCEPT !.db = [@ EXCEPT ![tb] = r.tbl],
                                  !.meta = [@ EXCEPT ![tb] = r.meta],
                                  !.log = @ \o r.log,
                                  !.unanswered = @ \/ r.exit = "continue",
                                  !.results = [x \in DOMAIN @ \cup {tb} |->
                                                 IF x = tb THEN r.ret ELSE @[x]]],
                      Tail(tables), en, t, up)

\* Every answer of the upstream was asked for, and no loop was left without
\* an answer.
Answered(acc, up) ==
    /\ ~acc.unanswered
    /\ \A tb \in VALID_TABLES :
          Len(SelectSeq(acc.log, LAMBDA e : e.endpoint = tb)) = Len(up[tb])

\* The call with the final state acc returns, or raises.
CallReturns(op, acc, up) ==
    /\ db' = acc.db
    /\ meta' = acc.meta
    /\ fetch_log' = acc.log
    /\ upstream' = up
    /\ IF acc.raised # "None"
       THEN /\ ret' = Raised(op, acc.raised)
            /\ results' = <<>>
       ELSE /\ ret' = [NoRet EXCEPT !.op = op]
            /\ results' = acc.results

\* HistoricalDataStore.sync_all(api_client)
SyncAll ==
    /\ Idle
    /\ args' = NoArgs
    /\ \E up \in Scripts :
        \E acc \in {SyncTables(CallState(db, meta),
                                <<"orders", "dividends", "transactions">>,
                                enabled, now, up)} :
            /\ Answered(acc, up)
            /\ CallReturns("sync_all", acc, up)
    /\ UNCHANGED <<pagination_time, http_vars, cache_vars, cache_freshness_minutes, cutoff_dt, enabled, now,
                   pc, cursor, all_items>>

\* tables arguments of sync_historical_data; <<>> is None (and the empty list).
TableLists ==
    { <<>>, <<"orders">>, <<"dividends", "orders">>, <<"transactions", "dividends">> }

\* list(valid_tables): the three names in the order the set gives them.
TableOrders ==
    {s \in [1..3 -> VALID_TABLES] : \A i, j \in 1..3 : s[i] = s[j] => i = j}

Range(s) == {s[i] : i \in DOMAIN s}

\* clear_cache(table) for each table of the list, or clear_cache().
ForceCleared(d, tables) ==
    [tb \in VALID_TABLES |->
        IF tables = <<>> \/ tb \in Range(tables)
        THEN {r \in d[tb] : r.account_id # ACCOUNT_ID}
        ELSE d[tb]]

ForceClearedMeta(m, tables) ==
    IF tables = <<>> THEN [tb \in VALID_TABLES |-> NoMeta] ELSE m

\* Trading212Client.sync_historical_data(tables, force) with a data store.
SyncHistoricalData ==
    /\ Idle
    /\ enabled
    /\ \E tables \in TableLists, force \in BOOLEAN, up \in Scripts :
        \E tables_to_sync \in IF tables = <<>> THEN TableOrders ELSE {tables} :
            /\ \A tb \in VALID_TABLES \ Range(tables_to_sync) : up[tb] = <<>>
            /\ \E acc \in {SyncTables(
                            CallState(IF force THEN ForceCleared(db, tables) ELSE db,
                                      IF force THEN ForceClearedMeta(meta, tables)
                                      ELSE meta),
                            tables_to_sync, TRUE, now, up)} :
                  /\ Answered(acc, up)
                  /\ args' = [NoArgs EXCEPT !.tables = tables, !.force = force]
                  /\ CallReturns("sync_historical_data", acc, up)
    /\ UNCHANGED <<pagination_time, http_vars, cache_vars, cache_freshness_minutes, cutoff_dt, enabled, now,
                   pc, cursor, all_items>>

\* ---------------------------------------------------------------------------
\* One sync against a scripted upstream
\* ---------------------------------------------------------------------------
MaxScriptLen == 2    \* answers of the upstream to one sync call

DividendAnswers ==
    { RaisedResponse,
      [raised |-> FALSE, items |-> <<Dividend("r1", Ts(1, 0))>>,
       next |-> [kind |-> "cursor", cursor |-> 1]],
      [raised |-> FALSE, items |-> <<Dividend("r2", Ts(2, 0))>>,
       next |-> [kind |-> "cursor", cursor |-> 1]],
      [raised |-> FALSE, items |-> <<Dividend("r2", Ts(2, 0))>>,
       next |-> [kind |-> "none", cursor |-> NoCursor]] }

TransactionAnswers ==
    { [raised |-> TRUE, items |-> <<>>,
       next |-> [kind |-> "none", cursor |-> NoCursor, time |-> NoDate]],
      [raised |-> FALSE, items |-> <<Transaction("t1", Ts(1, 0))>>,
       next |-> [kind |-> "query", cursor |-> 1, time |-> Ts(5, 0)]],
      [raised |-> FALSE, items |-> <<Transaction("t2", Ts(3, 2))>>,
       next |-> [kind |-> "query", cursor |-> 2, time |-> Ts(6, 0)]],
      [raised |-> FALSE, items |-> <<Transaction("t2", Ts(3, 2))>>,
       next |-> [kind |-> "none", cursor |-> NoCursor, time |-> NoDate]] }

\* The call made its requests, got these answers and returned.
ScriptedSyncReturns(table, incremental, out, resps) ==
    /\ out.exit # "continue"
    /\ Len(out.log) = Len(resps)
    /\ args' = [NoArgs EXCEPT !.table = table, !.incremental = incremental]
    /\ db' = [db EXCEPT ![table] = out.tbl]
    /\ meta' = [meta EXCEPT ![table] = out.meta]
    /\ fetch_log' = out.log
    /\ ret' = out.ret
    /\ UNCHANGED <<other_vars, cache_freshness_minutes, cutoff_dt, enabled, now, pc,
                   cursor, all_items>>

\* sync_dividends(api_client, incremental), from call to return.
SyncDividendsScripted ==
    /\ Idle
    /\ \E incremental \in BOOLEAN,
          resps \in SeqsUpTo(DividendAnswers, MaxScriptLen) \ {<<>>} :
          ScriptedSyncReturns("dividends", incremental,
              SyncDividendsRun(enabled, db["dividends"], meta["dividends"], now,
                               incremental, resps),
              resps)

\* sync_transactions(api_client, incremental), from call to return.
SyncTransactionsScripted ==
    /\ Idle
    /\ \E incremental \in BOOLEAN,
          resps \in SeqsUpTo(TransactionAnswers, MaxScriptLen) \ {<<>>} :
          ScriptedSyncReturns("transactions", incremental,
              SyncTransactionsRun(enabled, db["transactions"], meta["transactions"],
                                  now, incremental, resps),
              resps)

NextScripted ==
    \/ Tick
    \/ SyncDividendsScripted
    \/ SyncTransactionsScripted

SpecScripted == Init /\ [][NextScripted]_vars

\* ---------------------------------------------------------------------------
\* Dividends syncs against an upstream list served in pages
\* ---------------------------------------------------------------------------
MaxUpstreamLen == 3    \* dividends the upstream holds

UpstreamDividendItems ==
    { Dividend("r1", Ts(1, 0)), Dividend("r2", Ts(2, 0)),
      Dividend("r3", NoDate), Dividend(NoReference, Ts(2, 0)) }

\* What the upstream holds, in the order it returns it: no dividend twice.
UpstreamDividends ==
    { u \in SeqsUpTo(UpstreamDividendItems, MaxUpstreamLen) :
        \A i, j \in DOMAIN u : i # j => u[i] # u[j] }

\* The responses of get_dividends to a sync that asks for page after page
\* of size items: page k names cursor k as the next one, the last page has
\* no nextPagePath.
RECURSIVE ServedFrom(_, _, _)
ServedFrom(u, size, k) ==
    IF Len(u) <= size
    THEN << [raised |-> FALSE, items |-> u,
             next |-> [kind |-> "none", cursor |-> NoCursor]] >>
    ELSE << [raised |-> FALSE, items |-> SubSeq(u, 1, size),
             next |-> [kind |-> "cursor", cursor |-> k]] >>
            \o ServedFrom(SubSeq(u, size + 1, Len(u)), size, k + 1)

\* sync_dividends(api_client, incremental), from call to return, against an
\* upstream that holds u and serves it in pages of 1 or 2.
SyncDividendsServed ==
    /\ Idle
    /\ \E incremental \in BOOLEAN, u \in UpstreamDividends, size \in {1, 2} :
        LET out == SyncDividendsRun(enabled, db["dividends"], meta["dividends"], now,
                                    incremental, ServedFrom(u, size, 1))
        IN  /\ upstream' = [upstream EXCEPT !["dividends"] = u]
            /\ args' = [NoArgs EXCEPT !.table = "dividends", !.incremental = incremental]
            /\ db' = [db EXCEPT !["dividends"] = out.tbl]
            /\ meta' = [meta EXCEPT !["dividends"] = out.meta]
            /\ fetch_log' = out.log
            /\ ret' = out.ret
    /\ UNCHANGED <<pagination_time, results, http_vars, cache_vars,
                   cache_freshness_minutes, cutoff_dt, enabled, now, pc, cursor,
                   all_items>>

NextServed ==
    \/ SyncDividendsServed

SpecServed == Init /\ [][NextServed]_vars

NextSyncAll ==
    \/ SyncAll
    \/ SyncHistoricalData

SpecSyncAll == Init /\ [][NextSyncAll]_vars

\* ---------------------------------------------------------------------------
\* The retry decorator
\* ---------------------------------------------------------------------------
MaxRetries == 2     \* largest max_retries a decorator is built with (the
                    \* smallest is -1: a loop of no iteration)

RETRYABLE_STATUS_CODES == {408, 429, 500, 502, 503, 504}

NON_RETRYABLE_STATUS_CODES == {400, 401, 403, 404}

BASE_DELAY == 1

\* max_delay arguments (seconds): one that caps the second delay already,
\* and the client's.
MaxDelays == {1, 30}

\* What one invocation of the wrapped function does: it returns, or raises
\* httpx.HTTPStatusError with a status, httpx.ConnectError,
\* httpx.TimeoutException, or another exception (httpx.ReadError).
Returned == [kind |-> "return", status |-> 200]

HTTPStatusError(status) == [kind |-> "HTTPStatusError", status |-> status]

ConnectError == [kind |-> "ConnectError", status |-> 0]

TimeoutException == [kind |-> "TimeoutException", status |-> 0]

ReadError == [kind |-> "ReadError", status |-> 0]

CallOutcomes ==
    {Returned, ConnectError, TimeoutException, ReadError}
        \cup {HTTPStatusError(st) :
                st \in RETRYABLE_STATUS_CODES \cup NON_RETRYABLE_STATUS_CODES \cup {422}}

\* Variant: every HTTP error status is retried.
IsRetryableAnyStatus(o, retryable_statuses) ==
    \/ o.kind = "HTTPStatusError"
    \/ o.kind \in {"ConnectError", "TimeoutException"}

\* The except clauses of wrapper that go on to a retry: HTTPStatusError with
\* a status in retryable_statuses, ConnectError, TimeoutException.
IsRetryable(o, retryable_statuses) ==
    \/ o.kind = "HTTPStatusError" /\ o.status \in retryable_statuses
    \/ o.kind \in {"ConnectError", "TimeoutException"}

\* Variant: one iteration fewer.
AttemptsWithoutFirst(max_retries) == max_retries

\* range(max_retries + 1): the number of iterations of the for loop.
Attempts(max_retries) == max_retries + 1

RECURSIVE Pow2(_)
Pow2(n) == IF n = 0 THEN 1 ELSE 2 * Pow2(n - 1)

\* Variant: the exponential delay is not capped.
CappedDelayUncapped(attempt, base_delay, max_delay) ==
    base_delay * Pow2(attempt)

\* capped_delay of _calculate_delay.
CappedDelay(attempt, base_delay, max_delay) ==
    Min(base_delay * Pow2(attempt), max_delay)

\* random.uniform(0, capped_delay), in whole seconds: any of them from one
\* end of the interval to the other.
CalculateDelay(attempt, base_delay, max_delay) ==
    0..CappedDelay(attempt, base_delay, max_delay)

\* A call of the wrapper starts: last_exception = None, the loop is at its
\* first iteration.
WithRetry ==
    /\ Idle
    /\ \E max_retries \in -1..MaxRetries, max_delay \in MaxDelays :
        retry' = [max_retries |-> max_retries, max_delay |-> max_delay,
                  attempt |-> 0, calls |-> <<>>, sleeps |-> <<>>]
    /\ pc' = "with_retry"
    /\ args' = NoArgs
    /\ ret' = NoRet
    /\ UNCHANGED <<store_vars, limiter, now>>

\* One iteration of the for loop of wrapper: the wrapped function is invoked;
\* its value is returned, or its exception is raised again, or the wrapper
\* sleeps and goes on to the next iteration.
WithRetryAttempt ==
    /\ pc = "with_retry"
    /\ retry.attempt < Attempts(retry.max_retries)
    /\ \E o \in CallOutcomes :
        LET called == [retry EXCEPT !.calls = Append(@, o)]
        IN  IF o.kind = "return"
            THEN /\ retry' = called
                 /\ pc' = "idle"
                 /\ ret' = [NoRet EXCEPT !.op = "with_retry"]
            ELSE IF ~IsRetryable(o, RETRYABLE_STATUS_CODES)
                    \/ ~(retry.attempt < retry.max_retries)
            THEN /\ retry' = called
                 /\ pc' = "idle"
                 /\ ret' = [Raised("with_retry", o.kind) EXCEPT !.count = o.status]
            ELSE /\ \E delay \in CalculateDelay(retry.attempt, BASE_DELAY, retry.max_delay) :
                     retry' = [called EXCEPT
                                 !.sleeps = Append(@, [attempt |-> retry.attempt,
                                                       delay |-> delay]),
                                 !.attempt = @ + 1]
                 /\ UNCHANGED <<pc, ret>>
    /\ UNCHANGED <<store_vars, limiter, now, args>>

\* The loop has run out of iterations (the lines after the for loop): the
\* last exception is raised, or RuntimeError when there is none (max_retries
\* below 0: the function was never invoked).
WithRetryExhausted ==
    /\ pc = "with_retry"
    /\ ~(retry.attempt < Attempts(retry.max_retries))
    /\ pc' = "idle"
    /\ ret' = IF retry.calls = <<>>
              THEN Raised("with_retry", "RuntimeError")
              ELSE [Raised("with_retry", retry.calls[Len(retry.calls)].kind)
                       EXCEPT !.count = retry.calls[Len(retry.calls)].status]
    /\ UNCHANGED <<store_vars, http_vars, now, args>>

NextRetry ==
    \/ WithRetry
    \/ WithRetryAttempt
    \/ WithRetryExhausted

SpecRetry == Init /\ [][NextRetry]_vars

\* ---------------------------------------------------------------------------
\* The rate limiter
\* ---------------------------------------------------------------------------
Endpoints == {"/equity/account/info", "/equity/history/orders"}

\* int(text) and float(text) of a header value: the number, or ValueError.
ParseInt(h) ==
    IF h.kind = "integer" THEN [ok |-> TRUE, value |-> h.value]
    ELSE [ok |-> FALSE, value |-> 0]

ParseFloat(h) ==
    IF h.kind \in {"integer", "decimal", "nan"} THEN [ok |-> TRUE, value |-> h.value]
    ELSE [ok |-> FALSE, value |-> 0]

\* The truth value of headers.get(name): None and "" are false.
Present(h) == h.kind \notin {"missing", "empty"}

Headers(l, r, t) == [limit |-> l, remaining |-> r, reset |-> t]

\* Headers that all parse: limit 1, remaining 0 or 1, reset at 0, 1 or 2
\* (as "2" or as "2.0") or "nan".
GoodHeaderSets ==
    { Headers(Integer(1), r, t) :
        r \in {Integer(0), Integer(1)},
        t \in {Integer(0), Integer(1), Integer(2), Decimal(2), NaNText} }

\* Headers of which one is missing, empty or not of the number format its
\* conversion takes (int() does not take "1.0"), and none at all.
BadHeaderSets ==
    { Headers(l, Integer(1), Integer(2)) :
        l \in {Missing, EmptyText, Text, Decimal(1), NaNText} }
        \cup { Headers(Integer(1), r, Integer(2)) :
                  r \in {Missing, EmptyText, Text, Decimal(1), NaNText} }
        \cup { Headers(Integer(1), Integer(1), t) : t \in {Missing, EmptyText, Text} }
        \cup { Headers(Missing, Missing, Missing) }

HeaderSets == GoodHeaderSets \cup BadHeaderSets

EndpointLimit(limit, remaining, reset_time) ==
    [limit |-> limit, remaining |-> remaining, reset_time |-> reset_time]

\* self._endpoints[endpoint] = info
Recorded(lim, endpoint, info) ==
    [e \in DOMAIN lim \cup {endpoint} |-> IF e = endpoint THEN info ELSE lim[e]]

\* Variant: a ValueError of int() or float() is not caught.
UpdateFromHeadersUncaught(lim, endpoint, headers) ==
    IF ~(Present(headers.limit) /\ Present(headers.remaining) /\ Present(headers.reset))
    THEN [endpoints |-> lim, raised |-> FALSE]
    ELSE IF ~ParseInt(headers.limit).ok \/ ~ParseInt(headers.remaining).ok
            \/ ~ParseFloat(headers.reset).ok
    THEN [endpoints |-> lim, raised |-> TRUE]
    ELSE [endpoints |-> Recorded(lim, endpoint,
                          EndpointLimit(ParseInt(headers.limit).value,
                                        ParseInt(headers.remaining).value,
                                        ParseFloat(headers.reset).value)),
          raised |-> FALSE]

\* update_from_headers(endpoint, headers): _endpoints afterwards, and whether
\* an exception left the method.
UpdateFromHeadersResult(lim, endpoint, headers) ==
    IF ~(Present(headers.limit) /\ Present(headers.remaining) /\ Present(headers.reset))
    THEN [endpoints |-> lim, raised |-> FALSE]
    ELSE IF ~ParseInt(headers.limit).ok \/ ~ParseInt(headers.remaining).ok
            \/ ~ParseFloat(headers.reset).ok
    THEN [endpoints |-> lim, raised |-> FALSE]
    ELSE [endpoints |-> Recorded(lim, endpoint,
                          EndpointLimit(ParseInt(headers.limit).value,
                                        ParseInt(headers.remaining).value,
                                        ParseFloat(headers.reset).value)),
          raised |-> FALSE]

\* Variant: the reset time is not looked at.
CanMakeRequestIgnoringReset(lim, endpoint, t) ==
    IF endpoint \notin DOMAIN lim THEN TRUE
    ELSE lim[endpoint].remaining > 0

\* can_make_request(endpoint) at time t.
CanMakeRequestResult(lim, endpoint, t) ==
    IF endpoint \notin DOMAIN lim THEN TRUE
    ELSE IF FloatGeq(t, lim[endpoint].reset_time) THEN TRUE
    ELSE lim[endpoint].remaining > 0

UpdateFromHeaders ==
    /\ Idle
    /\ \E endpoint \in Endpoints, headers \in HeaderSets :
        LET res == UpdateFromHeadersResult(limiter, endpoint, headers)
        IN  /\ args' = [NoArgs EXCEPT !.endpoint = endpoint, !.headers = headers]
            /\ limiter' = res.endpoints
            /\ ret' = [NoRet EXCEPT !.op = "update_from_headers",
                                    !.raised = res.raised]
    /\ UNCHANGED <<store_vars, retry, now, pc>>

CanMakeRequest ==
    /\ Idle
    /\ \E endpoint \in Endpoints :
        /\ args' = [NoArgs EXCEPT !.endpoint = endpoint]
        /\ ret' = [NoRet EXCEPT !.op = "can_make_request",
                      !.allowed = CanMakeRequestResult(limiter, endpoint, now)]
    /\ UNCHANGED <<store_vars, http_vars, now, pc>>

\* Variant: the remaining requests are not looked at.
GetWaitTimeIgnoringRemaining(lim, endpoint, t) ==
    IF endpoint \notin DOMAIN lim THEN 0
    ELSE IF FloatGeq(t, lim[endpoint].reset_time) THEN 0
    ELSE FloatMinus(lim[endpoint].reset_time, t)

\* get_wait_time(endpoint) at time t, in seconds.
GetWaitTimeResult(lim, endpoint, t) ==
    IF endpoint \notin DOMAIN lim THEN 0
    ELSE IF lim[endpoint].remaining > 0 THEN 0
    ELSE IF FloatGeq(t, lim[endpoint].reset_time) THEN 0
    ELSE FloatMinus(lim[endpoint].reset_time, t)

GetWaitTime ==
    /\ Idle
    /\ \E endpoint \in Endpoints :
        /\ args' = [NoArgs EXCEPT !.endpoint = endpoint]
        /\ ret' = [NoRet EXCEPT !.op = "get_wait_time",
                      !.wait = GetWaitTimeResult(limiter, endpoint, now)]
    /\ UNCHANGED <<store_vars, http_vars, now, pc>>

\* wait_if_needed(endpoint): time.sleep(wait_time) when wait_time > 0.  The
\* sleeps made are returned in count and wait; the clock has moved on by the
\* time slept when the call returns.
WaitIfNeeded ==
    /\ Idle
    /\ \E endpoint \in Endpoints :
        LET wait_time == GetWaitTimeResult(limiter, endpoint, now)
        IN  /\ args' = [NoArgs EXCEPT !.endpoint = endpoint]
            /\ IF FloatGt(wait_time, 0)
               THEN /\ now' = now + wait_time
                    /\ ret' = [NoRet EXCEPT !.op = "wait_if_needed",
                                            !.count = 1, !.wait = wait_time]
               ELSE /\ now' = now
                    /\ ret' = [NoRet EXCEPT !.op = "wait_if_needed"]
    /\ UNCHANGED <<store_vars, http_vars, pc>>

NextRateLimiter ==
    \/ Tick
    \/ UpdateFromHeaders
    \/ CanMakeRequest
    \/ GetWaitTime
    \/ WaitIfNeeded

SpecRateLimiter == Init /\ [][NextRateLimiter]_vars

\* ---------------------------------------------------------------------------
\* The client's requests: rate limiter, then the retried request
\* ---------------------------------------------------------------------------
CLIENT_MAX_RETRIES == 3

CLIENT_MAX_DELAY == 30

\* The rate-limit headers a response sent at time t carries: none, or limit
\* 1 with 0 or 1 requests remaining until t + 2.
ResponseHeaders(t) ==
    { Headers(Missing, Missing, Missing),
      Headers(Integer(1), Integer(0), Integer(t + 2)),
      Headers(Integer(1), Integer(1), Integer(t + 2)) }

NoResponse == Headers(Missing, Missing, Missing)

\* What one _raw_request does at time t: a response is returned, or
\* raise_for_status raises for a 429 or a 400 response, or the connection
\* fails and there is no response.
RequestOutcomes(t) ==
    { [kind |-> k.kind, status |-> k.status, headers |-> h] :
        k \in {Returned, HTTPStatusError(429), HTTPStatusError(400)},
        h \in ResponseHeaders(t) }
      \cup { [kind |-> "ConnectError", status |-> 0, headers |-> NoResponse] }

\* The exception _handle_http_error raises for a status.
HandleHttpError(status) ==
    IF status = 400 THEN "ValidationError"
    ELSE IF status = 401 THEN "AuthenticationError"
    ELSE IF status = 403 THEN "AuthorizationError"
    ELSE IF status = 404 THEN "NotFoundError"
    ELSE IF status = 408 THEN "TimeoutError"
    ELSE IF status = 429 THEN "RateLimitError"
    ELSE IF status >= 500 THEN "ServerError"
    ELSE "HTTPStatusError"

\* The client after construction: a rate limiter that has recorded nothing,
\* the request function wrapped with max_retries 3, base_delay 1, max_delay
\* 30.  last: the headers of the latest response of each endpoint.
InitRequests ==
    /\ cache_freshness_minutes = DEFAULT_FRESHNESS_MINUTES
    /\ enabled = FALSE
    /\ db = [t \in VALID_TABLES |-> {}]
    /\ meta = [t \in VALID_TABLES |-> NoMeta]
    /\ now = 0
    /\ pc = "idle"
    /\ cursor = NoCursor
    /\ cutoff_dt = NoDate
    /\ all_items = <<>>
    /\ fetch_log = <<>>
    /\ args = NoArgs
    /\ ret = NoRet
    /\ pagination_time = NoDate
    /\ results = <<>>
    /\ upstream = [t \in {"orders", "dividends", "transactions"} |-> <<>>]
    /\ retry = [max_retries |-> CLIENT_MAX_RETRIES, max_delay |-> CLIENT_MAX_DELAY,
                attempt |-> 0, calls |-> <<>>, sleeps |-> <<>>, last |-> <<>>]
    /\ limiter = <<>>
    /\ sql_log = <<>>
    /\ data_store = enabled

\* _make_request(method, url) up to the call of the wrapped request:
\* wait_if_needed(url) sleeps when the limiter says so.
MakeRequest ==
    /\ Idle
    /\ now <= MaxNow
    /\ \E endpoint \in Endpoints :
        LET wait_time == GetWaitTimeResult(limiter, endpoint, now)
        IN  /\ args' = [NoArgs EXCEPT !.endpoint = endpoint]
            /\ now' = IF FloatGt(wait_time, 0) THEN now + wait_time ELSE now
    /\ retry' = [retry EXCEPT !.attempt = 0, !.calls = <<>>, !.sleeps = <<>>]
    /\ pc' = "make_request"
    /\ ret' = NoRet
    /\ UNCHANGED <<store_vars, limiter>>

\* One iteration of the wrapper's loop inside _make_request: the request is
\* sent; on a response, or on an HTTP error that is not retried (any more),
\* _make_request records the headers and returns or raises; another
\* exception leaves _make_request as it is; otherwise the wrapper sleeps (the
\* clock moves on by the delay) and sends the request again.
MakeRequestAttempt ==
    /\ pc = "make_request"
    /\ retry.attempt < Attempts(retry.max_retries)
    /\ \E o \in RequestOutcomes(now) :
        LET called == [retry EXCEPT
                         !.calls = Append(@, [kind |-> o.kind, status |-> o.status]),
                         !.last = IF o.kind = "ConnectError" THEN @
                                  ELSE Recorded(@, args.endpoint, o.headers)]
            updated == UpdateFromHeadersResult(limiter, args.endpoint, o.headers).endpoints
        IN  IF o.kind = "return"
            THEN /\ retry' = called
                 /\ limiter' = updated
                 /\ now' = now
                 /\ pc' = "idle"
                 /\ ret' = [NoRet EXCEPT !.op = "make_request"]
            ELSE IF ~IsRetryable(o, RETRYABLE_STATUS_CODES)
                    \/ ~(retry.attempt < retry.max_retries)
            THEN /\ retry' = called
                 /\ limiter' = IF o.kind = "HTTPStatusError" THEN updated ELSE limiter
                 /\ now' = now
                 /\ pc' = "idle"
                 /\ ret' = Raised("make_request",
                               IF o.kind = "HTTPStatusError"
                               THEN HandleHttpError(o.status) ELSE o.kind)
            ELSE /\ \E delay \in CalculateDelay(retry.attempt, BASE_DELAY, retry.max_delay) :
                     /\ retry' = [called EXCEPT !.attempt = @ + 1]
                     /\ now' = now + delay
                 /\ UNCHANGED <<pc, ret, limiter>>
    /\ UNCHANGED <<store_vars, args>>

NextRequests ==
    \/ Tick
    \/ MakeRequest
    \/ MakeRequestAttempt

SpecRequests == InitRequests /\ [][NextRequests]_vars

\* ---------------------------------------------------------------------------
\* Management methods of the store: newest date, coverage, clear
\* ---------------------------------------------------------------------------
VALID_DATE_COLUMNS ==
    [orders |-> "date_created", dividends |-> "paid_on", transactions |-> "datetime"]

\* A second account whose rows are in the same database file.
OTHER_ACCOUNT_ID == 67890

\* Table names a caller passes: the three of the allow-list, the metadata
\* table (in the schema, not in the allow-list) and a name of no table.
TableNames == VALID_TABLES \cup {"sync_metadata", "no_such_table"}

\* Column names a caller passes: the three date columns and another column.
ColumnNames == {"date_created", "paid_on", "datetime", "id"}

\* The value of a table's date column in a row.
DateOf(table, r) ==
    CASE table = "orders" -> r.date_created
      [] table = "dividends" -> r.paid_on
      [] table = "transactions" -> r.date_time

\* MAX and MIN of a column of text: NULLs are left out, the texts are
\* compared as text; NULL when there is no text.
SqlMax(dates) ==
    IF dates \ {NoDate} = {} THEN NoDate
    ELSE CHOOSE m \in dates \ {NoDate} : \A d \in dates \ {NoDate} : IsoLeq(d, m)

SqlMin(dates) ==
    IF dates \ {NoDate} = {} THEN NoDate
    ELSE CHOOSE m \in dates \ {NoDate} : \A d \in dates \ {NoDate} : IsoLeq(m, d)

Select(stmt, table) == [stmt |-> stmt, table |-> table]

DataCoverage(count, oldest, newest) ==
    [none |-> FALSE, count |-> count, oldest |-> oldest, newest |-> newest]

\* What a management method did: the statements it executed, the database
\* afterwards, and what it returned or raised.
Outcome(sql, d, m, r) == [sql |-> sql, db |-> d, meta |-> m, ret |-> r]

\* Variant: the table and the column go into the statement unchecked; a
\* table or column the schema does not have makes the statement fail.
GetNewestRecordDateUnchecked(d, m, table, date_column) ==
    IF table \notin VALID_TABLES \/ date_column # VALID_DATE_COLUMNS[table]
    THEN Outcome(<<Select("SELECT MAX", table)>>, d, m,
                 Raised("_get_newest_record_date", "OperationalError"))
    ELSE Outcome(<<Select("SELECT MAX", table)>>, d, m,
                 [NoRet EXCEPT !.op = "_get_newest_record_date",
                     !.newest = SqlMax({DateOf(table, r) : r \in RowsOf(d[table])})])

\* _get_newest_record_date(table, date_column)
GetNewestRecordDateResult(d, m, table, date_column) ==
    IF table \notin VALID_TABLES
    THEN Outcome(<<>>, d, m, Raised("_get_newest_record_date", "ValueError"))
    ELSE IF date_column # VALID_DATE_COLUMNS[table]
    THEN Outcome(<<>>, d, m, Raised("_get_newest_record_date", "ValueError"))
    ELSE Outcome(<<Select("SELECT MAX", table)>>, d, m,
                 [NoRet EXCEPT !.op = "_get_newest_record_date",
                     !.newest = SqlMax({DateOf(table, r) : r \in RowsOf(d[table])})])

\* _get_data_coverage(table, date_column)
GetDataCoverageResult(d, m, table, date_column) ==
    IF table \notin VALID_TABLES
    THEN Outcome(<<>>, d, m, Raised("_get_data_coverage", "ValueError"))
    ELSE IF date_column # VALID_DATE_COLUMNS[table]
    THEN Outcome(<<>>, d, m, Raised("_get_data_coverage", "ValueError"))
    ELSE LET rows == RowsOf(d[table])
             dates == {DateOf(table, r) : r \in rows}
         IN  Outcome(<<Select("SELECT COUNT MIN MAX", table)>>, d, m,
                     [NoRet EXCEPT !.op = "_get_data_coverage",
                         !.coverage =
                            IF Cardinality(rows) > 0
                            THEN DataCoverage(Cardinality(rows), SqlMin(dates),
                                              SqlMax(dates))
                            ELSE DataCoverage(0, NoDate, NoDate)])

\* A management method runs as one step: its statements, its writes and its
\* result.
Managed(table, date_column, out) ==
    /\ args' = [NoArgs EXCEPT !.table = table, !.date_column = date_column]
    /\ sql_log' = out.sql
    /\ db' = out.db
    /\ meta' = out.meta
    /\ ret' = out.ret

\* The two private readers are called on an enabled store (by the syncs and
\* by get_stats, behind their test of enabled).
GetNewestRecordDate ==
    /\ Idle
    /\ enabled
    /\ \E table \in TableNames, date_column \in ColumnNames :
          Managed(table, date_column,
                  GetNewestRecordDateResult(db, meta, table, date_column))
    /\ UNCHANGED <<pagination_time, results, upstream, http_vars, data_store,
                   cache_freshness_minutes, enabled, now, pc, cursor, cutoff_dt,
                   all_items, fetch_log>>

GetDataCoverage ==
    /\ Idle
    /\ enabled
    /\ \E table \in TableNames, date_column \in ColumnNames :
          Managed(table, date_column,
                  GetDataCoverageResult(db, meta, table, date_column))
    /\ UNCHANGED <<pagination_time, results, upstream, http_vars, data_store,
                   cache_freshness_minutes, enabled, now, pc, cursor, cutoff_dt,
                   all_items, fetch_log>>

\* The names clear_cache takes from its caller: None, the empty string (as
\* false as None), and the table names.
ClearNames == TableNames \cup {"None", ""}

ClearState(d, m) == [db |-> d, meta |-> m, deleted |-> {}, sql |-> <<>>, raised |-> FALSE]

\* Variant: the DELETE has no WHERE account_id = ?.
ClearOneEveryAccount(st, t) ==
    IF t = "sync_metadata"
    THEN [st EXCEPT !.meta = [tb \in VALID_TABLES |-> NoMeta],
                    !.deleted = @ \cup {<<t, Cardinality({tb \in VALID_TABLES : st.meta[tb].synced})>>},
                    !.sql = Append(@, Select("DELETE", t))]
    ELSE IF t \in VALID_TABLES
    THEN [st EXCEPT !.db[t] = {},
                    !.deleted = @ \cup {<<t, Cardinality(st.db[t])>>},
                    !.sql = Append(@, Select("DELETE", t))]
    ELSE [st EXCEPT !.sql = Append(@, Select("DELETE", t)), !.raised = TRUE]

\* One iteration of the for loop of clear_cache: DELETE FROM <t> WHERE
\* account_id = ?, and deleted[t] = cursor.rowcount.  The name goes into the
\* statement as it is; for a name of no table the statement fails.
ClearOne(st, t) ==
    IF t = "sync_metadata"
    THEN [st EXCEPT !.meta = [tb \in VALID_TABLES |-> NoMeta],
                    !.deleted = @ \cup {<<t, Cardinality({tb \in VALID_TABLES : st.meta[tb].synced})>>},
                    !.sql = Append(@, Select("DELETE", t))]
    ELSE IF t \in VALID_TABLES
    THEN [st EXCEPT !.db[t] = {r \in @ : r.account_id # ACCOUNT_ID},
                    !.deleted = @ \cup {<<t, Cardinality(RowsOf(st.db[t]))>>},
                    !.sql = Append(@, Select("DELETE", t))]
    ELSE [st EXCEPT !.sql = Append(@, Select("DELETE", t)), !.raised = TRUE]

RECURSIVE ClearTables(_, _)
ClearTables(st, tables) ==
    IF tables = <<>> \/ st.raised THEN st
    ELSE ClearTables(ClearOne(st, Head(tables)), Tail(tables))

RECURSIVE SumDeleted(_)
SumDeleted(deleted) ==
    IF deleted = {} THEN 0
    ELSE LET p == CHOOSE p \in deleted : TRUE
         IN  p[2] + SumDeleted(deleted \ {p})

\* HistoricalDataStore.clear_cache(table)
ClearCacheResult(en, d, m, table) ==
    IF ~en THEN Outcome(<<>>, d, m, [NoRet EXCEPT !.op = "clear_cache"])
    ELSE LET tables == IF table \in {"None", ""}
                       THEN <<"orders", "dividends", "transactions", "sync_metadata">>
                       ELSE <<table>>
             st == ClearTables(ClearState(d, m), tables)
         IN  IF st.raised
             THEN Outcome(st.sql, st.db, st.meta, Raised("clear_cache", "OperationalError"))
             ELSE Outcome(st.sql, st.db, st.meta,
                          [NoRet EXCEPT !.op = "clear_cache", !.deleted = st.deleted,
                                        !.count = SumDeleted(st.deleted)])

\* clear_cache(table) of the store, with any name a caller passes.
ClearCacheTable ==
    /\ Idle
    /\ \E table \in ClearNames :
          Managed(table, "None", ClearCacheResult(enabled, db, meta, table))
    /\ UNCHANGED <<pagination_time, results, upstream, http_vars, data_store,
                   cache_freshness_minutes, enabled, now, pc, cursor, cutoff_dt,
                   all_items, fetch_log>>

\* Trading212Client.clear_cache(table): the table goes to the store as it is.
ClientClearCacheResult(ds, d, m, table) ==
    IF ~ds THEN Outcome(<<>>, d, m, Raised("client.clear_cache", "ValueError"))
    ELSE LET out == ClearCacheResult(TRUE, d, m, table)
         IN  [out EXCEPT !.ret.op = "client.clear_cache"]

ClientClearCache ==
    /\ Idle
    /\ \E table \in ClearNames :
          Managed(table, "None", ClientClearCacheResult(data_store, db, meta, table))
    /\ UNCHANGED <<pagination_time, results, upstream, http_vars, data_store,
                   cache_freshness_minutes, enabled, now, pc, cursor, cutoff_dt,
                   all_items, fetch_log>>

\* Lists of sync_historical_data that hold a name outside valid_tables.
UnlistedTableLists ==
    { <<"sync_metadata">>, <<"no_such_table">>, <<"orders", "sync_metadata">>,
      <<"dividends", "no_such_table">>, <<"sync_metadata", "orders">> }

\* The clear_cache(table) calls of force = True, in the order of the list;
\* the first one that raises ends them.
RECURSIVE ForceClearEach(_, _)
ForceClearEach(out, tables) ==
    IF tables = <<>> \/ out.ret.raised THEN out
    ELSE LET one == ClearCacheResult(TRUE, out.db, out.meta, Head(tables))
         IN  ForceClearEach([one EXCEPT !.sql = out.sql \o one.sql], Tail(tables))

\* Trading212Client.sync_historical_data(tables, force) for a list that
\* holds a name outside valid_tables: the clears of force = True, then the
\* raise of the validation loop; no sync is reached.
SyncHistoricalDataUnlistedResult(ds, d, m, tables, force) ==
    IF ~ds THEN Outcome(<<>>, d, m, Raised("sync_historical_data", "ValueError"))
    ELSE LET cleared == IF force
                        THEN ForceClearEach(Outcome(<<>>, d, m, NoRet), tables)
                        ELSE Outcome(<<>>, d, m, NoRet)
         IN  IF cleared.ret.raised
             THEN [cleared EXCEPT !.ret.op = "sync_historical_data"]
             ELSE [cleared EXCEPT !.ret = Raised("sync_historical_data", "ValueError")]

SyncHistoricalDataUnlisted ==
    /\ Idle
    /\ \E tables \in UnlistedTableLists, force \in BOOLEAN :
        LET out == SyncHistoricalDataUnlistedResult(data_store, db, meta, tables, force)
        IN  /\ args' = [NoArgs EXCEPT !.tables = tables, !.force = force]
            /\ sql_log' = out.sql
            /\ db' = out.db
            /\ meta' = out.meta
            /\ ret' = out.ret
    /\ UNCHANGED <<pagination_time, results, upstream, http_vars, data_store,
                   cache_freshness_minutes, enabled, now, pc, cursor, cutoff_dt,
                   all_items, fetch_log>>

\* The CacheStats of a disabled cache: zero counts, no sync time, no coverage.
DisabledStats == CacheStats(FALSE, NoStats.counts, NoStats.last_sync, NoStats.coverage)

\* What the client's CacheStats(...) call for a missing store gives: it
\* passes nine of the twelve fields, none of which has a default, so the
\* constructor raises TypeError.
ClientStatsWithoutStore == Raised("get_cache_stats", "TypeError")

\* HistoricalDataStore.get_stats()
GetStatsResult(en, d, m) ==
    IF ~en THEN Outcome(<<>>, d, m, [NoRet EXCEPT !.op = "get_stats", !.stats = DisabledStats])
    ELSE Outcome(
            [i \in 1..9 |->
                CASE i = 1 -> Select("SELECT COUNT", "orders")
                  [] i = 2 -> Select("SELECT COUNT", "dividends")
                  [] i = 3 -> Select("SELECT COUNT", "transactions")
                  [] i \in 4..6 -> Select("SELECT", "sync_metadata")
                  [] i = 7 -> Select("SELECT COUNT MIN MAX", "orders")
                  [] i = 8 -> Select("SELECT COUNT MIN MAX", "dividends")
                  [] i = 9 -> Select("SELECT COUNT MIN MAX", "transactions")],
            d, m,
            [NoRet EXCEPT !.op = "get_stats",
                !.stats = CacheStats(TRUE,
                    [t \in VALID_TABLES |-> Cardinality(RowsOf(d[t]))],
                    [t \in VALID_TABLES |->
                        IF m[t].synced
                        THEN [none |-> FALSE, kind |-> m[t].kind, at |-> m[t].last_sync]
                        ELSE NoLastSync],
                    [t \in VALID_TABLES |->
                        GetDataCoverageResult(d, m, t, VALID_DATE_COLUMNS[t]).ret.coverage])])

GetStats ==
    /\ Idle
    /\ Managed("None", "None", GetStatsResult(enabled, db, meta))
    /\ UNCHANGED <<pagination_time, results, upstream, http_vars, data_store,
                   cache_freshness_minutes, enabled, now, pc, cursor, cutoff_dt,
                   all_items, fetch_log>>

\* Trading212Client.get_cache_stats()
GetCacheStatsResult(ds, d, m) ==
    IF ~ds THEN Outcome(<<>>, d, m, ClientStatsWithoutStore)
    ELSE LET out == GetStatsResult(TRUE, d, m)
         IN  [out EXCEPT !.ret.op = "get_cache_stats"]

GetCacheStats ==
    /\ Idle
    /\ Managed("None", "None", GetCacheStatsResult(data_store, db, meta))
    /\ UNCHANGED <<pagination_time, results, upstream, http_vars, data_store,
                   cache_freshness_minutes, enabled, now, pc, cursor, cutoff_dt,
                   all_items, fetch_log>>

\* Rows of a database file a store is constructed over: it is shared with
\* another account, whose rows are in every table, and it holds some rows of
\* the store's account from earlier runs.
OtherAccount(row) == [row EXCEPT !.account_id = OTHER_ACCOUNT_ID]

StoredOrders ==
    { {OtherAccount(OrderRow(Order(2, "FILLED", 150)))} \cup own :
        own \in SUBSET {OrderRow(Order(1, "FILLED", 150))} }

StoredDividends ==
    { {OtherAccount(DividendRow(Dividend("r3", Ts(5, 0))))} \cup own :
        own \in SUBSET { DividendRow(Dividend("r1", Ts(1, 0))),
                         DividendRow(Dividend("r2", Ts(3, 2))) } }

StoredTransactions ==
    { {OtherAccount(TransactionRow(Transaction("t3", Ts(5, 0))))} \cup own :
        own \in SUBSET {TransactionRow(Transaction("t1", Ts(2, 0)))} }

\* A store over a database file of an earlier run, which every table was
\* synced in or none; the client holds a store only when caching is enabled.
InitCache ==
    /\ cache_freshness_minutes = DEFAULT_FRESHNESS_MINUTES
    /\ enabled \in BOOLEAN
    /\ db \in [orders : StoredOrders, dividends : StoredDividends,
                transactions : StoredTransactions]
    /\ meta \in { [t \in VALID_TABLES |-> NoMeta],
                   [t \in VALID_TABLES |-> SyncMeta("naive", 0, Cardinality(RowsOf(db[t])))] }
    /\ now = 0
    /\ pc = "idle"
    /\ cursor = NoCursor
    /\ cutoff_dt = NoDate
    /\ all_items = <<>>
    /\ fetch_log = <<>>
    /\ args = NoArgs
    /\ ret = NoRet
    /\ pagination_time = NoDate
    /\ results = <<>>
    /\ upstream = [t \in {"orders", "dividends", "transactions"} |-> <<>>]
    /\ retry = [max_retries |-> 0, max_delay |-> 0, attempt |-> 0,
                calls |-> <<>>, sleeps |-> <<>>]
    /\ limiter = <<>>
    /\ sql_log = <<>>
    /\ data_store \in {FALSE, enabled}

\* A database file that another account has synced into: it holds the
\* other account's order 1, dividend r1 and transaction t1, and the store
\* of this account is opened on it.
InitAccounts ==
    /\ cache_freshness_minutes = DEFAULT_FRESHNESS_MINUTES
    /\ enabled = TRUE
    /\ db = [orders |-> {OtherAccount(OrderRow(Order(1, "FILLED", 999)))},
             dividends |-> {OtherAccount(DividendRow(Dividend("r1", Ts(1, 0))))},
             transactions |-> {OtherAccount(TransactionRow(Transaction("t1", Ts(1, 0))))}]
    /\ meta = [t \in VALID_TABLES |-> NoMeta]
    /\ now = 0
    /\ pc = "idle"
    /\ cursor = NoCursor
    /\ cutoff_dt = NoDate
    /\ all_items = <<>>
    /\ fetch_log = <<>>
    /\ args = NoArgs
    /\ ret = NoRet
    /\ InitOther

NextAccounts ==
    \/ UpsertOrdersCall
    \/ UpsertDividendsCall
    \/ ClearCacheTable
    \/ GetNewestRecordDate

SpecAccounts == InitAccounts /\ [][NextAccounts]_vars

NextCache ==
    \/ GetNewestRecordDate
    \/ GetDataCoverage
    \/ ClearCacheTable
    \/ ClientClearCache
    \/ SyncHistoricalDataUnlisted
    \/ GetStats
    \/ GetCacheStats

SpecCache == InitCache /\ [][NextCache]_vars

\* ---------------------------------------------------------------------------
\* The pagination loops without a bound on their iterations
\* ---------------------------------------------------------------------------
\* Only what the conditions of the three while loops read is kept: the
\* cursor, the time token, the cutoff and the response of the fetch.  The
\* records collected enter none of the conditions; fetch_log holds the
\* latest request only, and the code after the loop is the return to the
\* caller.
LoopReturns(op, err, raised) ==
    /\ pc' = "idle"
    /\ cursor' = NoCursor
    /\ cutoff_dt' = NoDate
    /\ pagination_time' = NoDate
    /\ ret' = [NoRet EXCEPT !.op = op, !.error = err, !.raised = raised]

\* One iteration of the while loop of sync_orders.
SyncOrdersIteration ==
    /\ pc = "sync_orders"
    /\ \E resp \in OrderResponses :
        LET exit == OrdersLoopExit(resp)
        IN  /\ fetch_log' = <<OrdersFetched(cursor, SYNC_ORDERS_LIMIT, resp)>>
            /\ CASE exit = "error" -> LoopReturns("sync_orders", "Pagination stopped", FALSE)
                 [] exit \in {"empty", "last_page"} -> LoopReturns("sync_orders", "None", FALSE)
                 [] exit = "escape" -> LoopReturns("sync_orders", "ValueError", TRUE)
                 [] exit = "continue" ->
                      /\ cursor' = resp.next.cursor
                      /\ UNCHANGED <<pc, cutoff_dt, pagination_time, ret>>
    /\ UNCHANGED <<results, upstream, http_vars, cache_vars, cache_freshness_minutes,
                   enabled, db, meta, now, args, all_items>>

\* One iteration of the while loop of sync_dividends.
SyncDividendsIteration ==
    /\ pc = "sync_dividends"
    /\ \E resp \in DividendResponses :
        LET exit == DividendsLoopExit(cutoff_dt, resp)
        IN  /\ fetch_log' = <<Fetched("dividends", cursor,
                                      DividendsRequestLimit(SYNC_DIVIDENDS_LIMIT), resp,
                                      Len(DividendsKept(cutoff_dt, resp)))>>
            /\ CASE exit = "error" -> LoopReturns("sync_dividends", "Exception", FALSE)
                 [] exit \in {"empty", "cached", "last_page"} ->
                      LoopReturns("sync_dividends", "None", FALSE)
                 [] exit = "continue" ->
                      /\ cursor' = resp.next.cursor
                      /\ UNCHANGED <<pc, cutoff_dt, pagination_time, ret>>
    /\ UNCHANGED <<results, upstream, http_vars, cache_vars, cache_freshness_minutes,
                   enabled, db, meta, now, args, all_items>>

\* One iteration of the while loop of sync_transactions.
SyncTransactionsIteration ==
    /\ pc = "sync_transactions"
    /\ \E resp \in TransactionResponses :
        LET exit == TransactionsLoopExit(resp)
        IN  /\ fetch_log' = <<TransactionsFetched(cursor,
                                  EffectiveTime(pagination_time, cutoff_dt),
                                  SYNC_TRANSACTIONS_LIMIT, resp)>>
            /\ CASE exit = "error" -> LoopReturns("sync_transactions", "Exception", FALSE)
                 [] exit \in {"empty", "last_page"} ->
                      LoopReturns("sync_transactions", "None", FALSE)
                 [] exit = "continue" ->
                      /\ cursor' = resp.next.cursor
                      /\ pagination_time' = resp.next.time
                      /\ UNCHANGED <<pc, cutoff_dt, ret>>
    /\ UNCHANGED <<results, upstream, http_vars, cache_vars, cache_freshness_minutes,
                   enabled, db, meta, now, args, all_items>>

NextPagination ==
    \/ SyncOrders
    \/ SyncDividends
    \/ SyncTransactions
    \/ SyncOrdersIteration
    \/ SyncDividendsIteration
    \/ SyncTransactionsIteration

\* The thread that runs a sync goes on running it: an iteration that can be
\* made is made.
SpecPagination ==
    /\ Init
    /\ [][NextPagination]_vars
    /\ WF_vars(SyncOrdersIteration)
    /\ WF_vars(SyncDividendsIteration)
    /\ WF_vars(SyncTransactionsIteration)

\* ---------------------------------------------------------------------------
\* The client's lazily constructed store
\* ---------------------------------------------------------------------------
MaxLookups == 2      \* account lookups _get_data_store may make

\* What the initialization of _get_data_store meets: get_account_info
\* returns the account, or raises; or the constructor of the store raises.
InitOutcomes == {"account", "lookup_raises", "store_raises"}

\* The client's fields: _data_store is set or None, the account id of the
\* store, _data_store_init_pending, config.ENABLE_LOCAL_CACHE, and the
\* number of get_account_info calls _get_data_store has made.
ClientStore(store, account_id, init_pending, enable_local_cache, lookups) ==
    [store |-> store, account_id |-> account_id, init_pending |-> init_pending,
     enable_local_cache |-> enable_local_cache, lookups |-> lookups]

\* Variant: a failed initialization leaves _data_store_init_pending set.
GetDataStoreRetrying(c, outcome) ==
    IF c.init_pending /\ ~c.store
    THEN IF outcome = "account"
         THEN [c EXCEPT !.store = TRUE, !.account_id = ACCOUNT_ID, !.lookups = @ + 1]
         ELSE [c EXCEPT !.lookups = @ + 1]
    ELSE c

\* _get_data_store(): the client's fields afterwards; the value returned is
\* the store field.
GetDataStoreResult(c, outcome) ==
    IF c.init_pending /\ ~c.store
    THEN IF outcome = "account"
         THEN [c EXCEPT !.store = TRUE, !.account_id = ACCOUNT_ID, !.lookups = @ + 1]
         ELSE [c EXCEPT !.init_pending = FALSE, !.lookups = @ + 1]
    ELSE c

\* What a cache method of the client does once _get_data_store has returned
\* a store (ds) or None.
ClientOutcome(op, ds, d, m, table) ==
    IF op = "client.clear_cache" THEN ClientClearCacheResult(ds, d, m, table)
    ELSE IF op = "get_cache_stats" THEN GetCacheStatsResult(ds, d, m)
    ELSE Outcome(<<>>, d, m, [NoRet EXCEPT !.op = "cache_enabled", !.allowed = ds])

\* A cache method of the client, from its call of _get_data_store on.
ViaGetDataStore(op, table, c) ==
    /\ c.lookups <= MaxLookups
    /\ data_store' = c
    /\ enabled' = c.store
    /\ Managed(table, "None", ClientOutcome(op, c.store, db, meta, table))
    /\ UNCHANGED <<pagination_time, results, upstream, http_vars,
                   cache_freshness_minutes, now, pc, cursor, cutoff_dt,
                   all_items, fetch_log>>

\* The property cache_enabled: ENABLE_LOCAL_CACHE and
\* self._get_data_store() is not None.
CacheEnabled ==
    /\ Idle
    /\ \E outcome \in InitOutcomes :
          ViaGetDataStore("cache_enabled", "None",
              IF data_store.enable_local_cache
              THEN GetDataStoreResult(data_store, outcome) ELSE data_store)

\* Trading212Client.clear_cache(table), with its call of _get_data_store.
ClientClearCacheLazily ==
    /\ Idle
    /\ \E outcome \in InitOutcomes, table \in ClearNames :
          ViaGetDataStore("client.clear_cache", table,
                          GetDataStoreResult(data_store, outcome))

\* Trading212Client.get_cache_stats(), with its call of _get_data_store.
GetCacheStatsLazily ==
    /\ Idle
    /\ \E outcome \in InitOutcomes :
          ViaGetDataStore("get_cache_stats", "None",
                          GetDataStoreResult(data_store, outcome))

\* The client after construction, over a database file of an earlier run.
InitClientStore ==
    /\ cache_freshness_minutes = DEFAULT_FRESHNESS_MINUTES
    /\ enabled = FALSE
    /\ db \in [orders : StoredOrders, dividends : StoredDividends,
                transactions : StoredTransactions]
    /\ meta \in { [t \in VALID_TABLES |-> NoMeta],
                   [t \in VALID_TABLES |-> SyncMeta("naive", 0, Cardinality(RowsOf(db[t])))] }
    /\ now = 0
    /\ pc = "idle"
    /\ cursor = NoCursor
    /\ cutoff_dt = NoDate
    /\ all_items = <<>>
    /\ fetch_log = <<>>
    /\ args = NoArgs
    /\ ret = NoRet
    /\ pagination_time = NoDate
    /\ results = <<>>
    /\ upstream = [t \in {"orders", "dividends", "transactions"} |-> <<>>]
    /\ retry = [max_retries |-> 0, max_delay |-> 0, attempt |-> 0,
                calls |-> <<>>, sleeps |-> <<>>]
    /\ limiter = <<>>
    /\ sql_log = <<>>
    /\ \E enable_local_cache \in BOOLEAN :
          data_store = ClientStore(FALSE, 0, enable_local_cache, enable_local_cache, 0)

NextClientStore ==
    \/ CacheEnabled
    \/ ClientClearCacheLazily
    \/ GetCacheStatsLazily

SpecClientStore == InitClientStore /\ [][NextClientStore]_vars

\* ---------------------------------------------------------------------------
\* Freshness of the cache
\* ---------------------------------------------------------------------------
\* Values of CACHE_FRESHNESS_MINUTES and of max_age_minutes (minutes).
FreshnessSettings == {-1, 0, 1, DEFAULT_FRESHNESS_MINUTES}

\* How long before the call the last_sync written by a direct
\* _update_sync_metadata lies (minutes).
SyncAges == {0, 59, 60}

LastSyncKinds == {"naive", "empty", "bad"}

\* max_age_minutes if max_age_minutes is not None else CACHE_FRESHNESS_MINUTES
FreshnessMinutes(max_age_minutes) ==
    IF max_age_minutes = {} THEN cache_freshness_minutes
    ELSE CHOOSE m \in max_age_minutes : TRUE

\* Variant: a cache whose age equals the threshold is fresh.
IsFreshInclusive(age, freshness_minutes) == age <= freshness_minutes

\* age < timedelta(minutes=freshness_minutes)
IsFresh(age, freshness_minutes) == age < freshness_minutes

\* Variant: the metadata is consulted before the special values.
IsCacheFreshMetadataFirst(en, m, freshness_minutes, t) ==
    IF ~en THEN [fresh |-> FALSE, raised |-> FALSE]
    ELSE IF ~m.synced \/ m.kind = "empty" THEN [fresh |-> FALSE, raised |-> FALSE]
    ELSE IF freshness_minutes = -1 THEN [fresh |-> TRUE, raised |-> FALSE]
    ELSE IF freshness_minutes = 0 THEN [fresh |-> FALSE, raised |-> FALSE]
    ELSE IF m.kind = "bad" THEN [fresh |-> FALSE, raised |-> FALSE]
    ELSE [fresh |-> IsFresh(t - m.last_sync, freshness_minutes), raised |-> FALSE]

\* Variant: the ValueError of fromisoformat is not caught.
IsCacheFreshUncaught(en, m, freshness_minutes, t) ==
    IF ~en THEN [fresh |-> FALSE, raised |-> FALSE]
    ELSE IF freshness_minutes = -1 THEN [fresh |-> TRUE, raised |-> FALSE]
    ELSE IF freshness_minutes = 0 THEN [fresh |-> FALSE, raised |-> FALSE]
    ELSE IF ~m.synced \/ m.kind = "empty" THEN [fresh |-> FALSE, raised |-> FALSE]
    ELSE IF m.kind = "bad" THEN [fresh |-> FALSE, raised |-> TRUE]
    ELSE [fresh |-> IsFresh(t - m.last_sync, freshness_minutes), raised |-> FALSE]

\* is_cache_fresh, given the store's enabled flag, the metadata row of the
\* table, the threshold in force and the clock.  fromisoformat raises
\* ValueError on text that is not a timestamp; the except clause returns False.
IsCacheFreshResult(en, m, freshness_minutes, t) ==
    IF ~en THEN [fresh |-> FALSE, raised |-> FALSE]
    ELSE IF freshness_minutes = -1 THEN [fresh |-> TRUE, raised |-> FALSE]
    ELSE IF freshness_minutes = 0 THEN [fresh |-> FALSE, raised |-> FALSE]
    ELSE IF ~m.synced \/ m.kind = "empty" THEN [fresh |-> FALSE, raised |-> FALSE]
    ELSE IF m.kind = "bad" THEN [fresh |-> FALSE, raised |-> FALSE]
    ELSE [fresh |-> IsFresh(t - m.last_sync, freshness_minutes), raised |-> FALSE]

\* is_cache_fresh(table, max_age_minutes)
IsCacheFresh ==
    /\ Idle
    /\ \E table \in VALID_TABLES,
          max_age_minutes \in {{}} \cup {{m} : m \in FreshnessSettings} :
        LET r == IsCacheFreshResult(enabled, meta[table],
                                    FreshnessMinutes(max_age_minutes), now)
        IN  /\ args' = [NoArgs EXCEPT !.table = table,
                                      !.max_age_minutes = max_age_minutes]
            /\ ret' = [NoRet EXCEPT !.op = "is_cache_fresh", !.fresh = r.fresh,
                                    !.raised = r.raised]
    /\ fetch_log' = <<>>
    /\ UNCHANGED <<other_vars, cache_freshness_minutes, cutoff_dt, enabled, db, meta, now, pc,
                   cursor, all_items>>

\* _update_sync_metadata(table_name, last_sync, record_count) called on its
\* own: INSERT OR REPLACE of the row of (table_name, account_id).
UpdateSyncMetadata ==
    /\ Idle
    /\ enabled
    /\ \E table \in VALID_TABLES, kind \in LastSyncKinds, age \in SyncAges :
        /\ kind # "naive" => age = 0
        /\ args' = [NoArgs EXCEPT !.table = table]
        /\ meta' = [meta EXCEPT ![table] =
                        SyncMeta(kind, IF kind = "naive" THEN now - age ELSE 0, 0)]
    /\ ret' = [NoRet EXCEPT !.op = "_update_sync_metadata"]
    /\ fetch_log' = <<>>
    /\ UNCHANGED <<other_vars, cache_freshness_minutes, cutoff_dt, enabled, db, now, pc,
                   cursor, all_items>>

\* A store started under any configured threshold.
InitFresh ==
    /\ cache_freshness_minutes \in FreshnessSettings
    /\ enabled \in BOOLEAN
    /\ db = [t \in VALID_TABLES |-> {}]
    /\ meta = [t \in VALID_TABLES |-> NoMeta]
    /\ now = 0
    /\ pc = "idle"
    /\ cursor = NoCursor
    /\ cutoff_dt = NoDate
    /\ all_items = <<>>
    /\ fetch_log = <<>>
    /\ args = NoArgs
    /\ ret = NoRet
    /\ InitOther

NextFresh ==
    \/ Tick
    \/ UpdateSyncMetadata
    \/ IsCacheFresh
    \/ ClearCache

SpecFresh == InitFresh /\ [][NextFresh]_vars

\* ---------------------------------------------------------------------------
\* Properties of the orders cache
\* ---------------------------------------------------------------------------
TerminalStatuses == {"FILLED", "CANCELLED", "REJECTED"}

OrdersCount(d) == Cardinality(RowsOf(d["orders"]))

TerminalStored(d, id) ==
    \E r \in RowsOf(d["orders"]) : r.id = id /\ r.status \in TerminalStatuses

RECURSIVE SumN(_)
SumN(log) == IF log = <<>> THEN 0 ELSE Head(log).n + SumN(Tail(log))

\* A step that is the call of the named operation (time passes only between
\* calls, and every call records its name in ret).
Called(op) == ret'.op = op /\ now' = now /\ pc = "idle" /\ pc' = "idle"

InSyncOrders == pc \in {"sync_orders", "sync_orders_merge"}

SyncOrdersReturns == pc = "sync_orders_merge" /\ pc' = "idle"

\* C1: terminal orders are write-once.  In every step other than a cache
\* clear, each stored row whose status is FILLED, CANCELLED or REJECTED is
\* still stored, field for field, afterwards; and an upsert whose records all
\* carry ids of stored terminal orders returns 0 and leaves the table as it was.
C1_TerminalWriteOnce ==
    [][ /\ Called("clear_cache")
           \/ \A r \in RowsOf(db["orders"]) :
                 r.status \in TerminalStatuses => r \in db'["orders"]
        /\ ( /\ Called("_upsert_orders")
             /\ \A i \in DOMAIN args'.items : TerminalStored(db, args'.items[i].id) )
           => (ret'.count = 0 /\ db' = db)
      ]_vars

\* Witness of C1: an upsert met a stored terminal order whose fill price
\* differs from the incoming record's, and returned 0.
C1_Witness ==
    /\ ret.op = "_upsert_orders"
    /\ Len(args.items) >= 1
    /\ ret.count = 0
    /\ \E r \in RowsOf(db["orders"]) :
          /\ r.id = args.items[1].id
          /\ r.status \in TerminalStatuses
          /\ r.fill_price # args.items[1].fill_price

\* C2: when the stored order of an id is absent or non-terminal, upserting a
\* record with that id leaves exactly one row for the id, equal to the incoming
\* record, and the other rows as they were; upserting a record that is already
\* stored gives the same table again.
C2_ReplaceUnconditionally ==
    [][ Called("_upsert_orders") =>
          LET in == args'.items IN
          ( Len(in) = 1 /\ in[1].id # NoId /\ ~TerminalStored(db, in[1].id) )
             => /\ {r \in RowsOf(db'["orders"]) : r.id = in[1].id} = {OrderRow(in[1])}
                /\ \A r \in db["orders"] : r.id # in[1].id => r \in db'["orders"]
                /\ ( OrderRow(in[1]) \in db["orders"] => db' = db )
      ]_vars

\* Witness of C2: a non-terminal record has just been upserted and is the only
\* row of its id.
C2_Witness ==
    /\ ret.op = "_upsert_orders"
    /\ ret.count = 1
    /\ args.items = <<Order(1, "NEW", 999)>>
    /\ {r \in RowsOf(db["orders"]) : r.id = 1} = {OrderRow(Order(1, "NEW", 999))}

\* C3: the count returned by an upsert, and records_added of a sync result, is
\* the number of rows of the table and account after the call minus the number
\* before it.
C3_AddedIsRowGrowth ==
    [][ /\ Called("_upsert_orders")
              => ret'.count = OrdersCount(db') - OrdersCount(db)
        /\ SyncOrdersReturns
              => ret'.records_added = OrdersCount(db') - OrdersCount(db)
      ]_vars

\* C9 as stated: in an orders sync no fetch is issued after a response with
\* fewer than 8 items.
C9_NoFetchAfterShortPage ==
    (InSyncOrders \/ ret.op = "sync_orders")
        => \A i \in 1..(Len(fetch_log) - 1) : fetch_log[i].n >= ORDERS_LIMIT_CAP

LoopGoesOn(e) == ~e.raised /\ e.n > 0 /\ e.next = "cursor"

\* C9 as amended: the orders sync issues a further fetch exactly when the last
\* response returned items and a nextPagePath carrying a cursor (the page
\* length is not compared with the cap); it stops when the fetch raises, the
\* page is empty or nextPagePath is missing or lacks a cursor; and
\* records_fetched is the sum of the sizes of the pages received, so a full
\* page followed by a partial one without nextPagePath makes exactly 2 fetches.
C9_LoopStopsOnNextPagePath ==
    (InSyncOrders \/ (ret.op = "sync_orders" /\ enabled))
        => /\ \A i \in 1..(Len(fetch_log) - 1) : LoopGoesOn(fetch_log[i])
           /\ (pc = "sync_orders" /\ fetch_log # <<>>)
                 => LoopGoesOn(fetch_log[Len(fetch_log)])
           /\ pc # "sync_orders"
                 => /\ fetch_log # <<>>
                    /\ ~LoopGoesOn(fetch_log[Len(fetch_log)])
           /\ pc = "sync_orders_merge" => Len(all_items) = SumN(fetch_log)
           /\ (pc = "idle" /\ ~ret.raised) => ret.records_fetched = SumN(fetch_log)

\* Witness of C9: a sync that received a full page and then a partial page,
\* made two fetches and reports the sum of the two sizes.
C9_Witness ==
    /\ pc = "idle"
    /\ ret.op = "sync_orders"
    /\ Len(fetch_log) = 2
    /\ fetch_log[1].n = ORDERS_LIMIT_CAP
    /\ fetch_log[2].n \in 1..(ORDERS_LIMIT_CAP - 1)
    /\ fetch_log[2].next = "none"
    /\ ret.records_fetched = ORDERS_LIMIT_CAP + fetch_log[2].n

\* C10: every historical-orders request sent upstream carries a limit of at
\* most 8, and the first request of every orders sync carries no cursor.
C10_OrdersRequestCapped ==
    /\ \A i \in DOMAIN fetch_log :
          fetch_log[i].endpoint = "orders" => fetch_log[i].limit <= 8
    /\ ((InSyncOrders \/ ret.op = "sync_orders") /\ fetch_log # <<>>)
          => fetch_log[1].cursor = NoCursor

\* Witness of C10: the first request of a sync over a non-empty cache.
C10_Witness ==
    /\ pc = "sync_orders"
    /\ Len(fetch_log) = 1
    /\ RowsOf(db["orders"]) # {}
    /\ fetch_log[1].limit = 8
    /\ fetch_log[1].cursor = NoCursor

\* ---------------------------------------------------------------------------
\* Properties of the freshness check
\* ---------------------------------------------------------------------------
Unusable(m) == ~m.synced \/ m.kind \in {"empty", "bad"}

\* C4: on an enabled store whose table has a recorded, well-formed last_sync,
\* under a positive threshold (the argument, or the configured value when the
\* argument is omitted), is_cache_fresh returns TRUE exactly when
\* now - last_sync is strictly less than the threshold: an age equal to the
\* threshold is stale.
C4_FreshIffYoungerThanThreshold ==
    [][ Called("is_cache_fresh") =>
          LET m == meta[args'.table]
              maxAge == FreshnessMinutes(args'.max_age_minutes)
          IN  (enabled /\ ~Unusable(m) /\ maxAge > 0)
                 => /\ ret'.fresh <=> (now - m.last_sync < maxAge)
                    /\ (now - m.last_sync = maxAge) => ~ret'.fresh
      ]_vars

\* Witness of C4: under the configured threshold of 60 minutes a table synced
\* exactly 60 minutes ago was reported stale.
C4_Witness ==
    /\ ret.op = "is_cache_fresh"
    /\ enabled
    /\ args.max_age_minutes = {}
    /\ cache_freshness_minutes = 60
    /\ ~Unusable(meta[args.table])
    /\ now - meta[args.table].last_sync = 60
    /\ ~ret.fresh

\* C5 as stated: with threshold 0 is_cache_fresh returns FALSE and with
\* threshold -1 it returns TRUE, whatever the store and its metadata.
C5_SpecialThresholdsAnyStore ==
    [][ Called("is_cache_fresh") =>
          LET maxAge == FreshnessMinutes(args'.max_age_minutes)
          IN  /\ maxAge = 0 => ~ret'.fresh
              /\ maxAge = -1 => ret'.fresh
      ]_vars

\* C5 as amended: with threshold 0 (argument or configured value)
\* is_cache_fresh returns FALSE whatever last_sync is; with threshold -1 it
\* returns TRUE on an enabled store whatever last_sync is, also for a table
\* never synced.
C5_SpecialThresholds ==
    [][ Called("is_cache_fresh") =>
          LET maxAge == FreshnessMinutes(args'.max_age_minutes)
          IN  /\ maxAge = 0 => ~ret'.fresh
              /\ (enabled /\ maxAge = -1) => ret'.fresh
      ]_vars

\* Witness of C5: on an enabled store configured with -1, a table that was
\* never synced was reported fresh.
C5_Witness ==
    /\ ret.op = "is_cache_fresh"
    /\ enabled
    /\ args.max_age_minutes = {}
    /\ cache_freshness_minutes = -1
    /\ ~meta[args.table].synced
    /\ ret.fresh

InSyncDividends == pc \in {"sync_dividends", "sync_dividends_merge"}

SyncDividendsReturns == pc = "sync_dividends_merge" /\ pc' = "idle"

AtOrAfter(T, d) == d.paid_on # NoDate /\ Instant(d.paid_on) >= Instant(T)

RECURSIVE ItemsAtOrAfter(_, _)
ItemsAtOrAfter(T, items) ==
    IF items = <<>> THEN <<>>
    ELSE (IF AtOrAfter(T, Head(items)) THEN <<Head(items)>> ELSE <<>>)
             \o ItemsAtOrAfter(T, Tail(items))

RECURSIVE SumKept(_)
SumKept(log) == IF log = <<>> THEN 0 ELSE Head(log).kept + SumKept(Tail(log))

StoredReferences(d) == {r.reference : r \in RowsOf(d["dividends"])}

C8_StopsAtFirstCachedPage ==
    (InSyncDividends \/ (ret.op = "sync_dividends" /\ enabled))
        => /\ \A i \in 1..(Len(fetch_log) - 1) : fetch_log[i].kept = fetch_log[i].n
           /\ (pc = "sync_dividends" /\ fetch_log # <<>>)
                 => fetch_log[Len(fetch_log)].kept = fetch_log[Len(fetch_log)].n
           /\ pc = "sync_dividends_merge" => Len(all_items) = SumKept(fetch_log)
           /\ ( /\ pc = "idle"
                /\ fetch_log[Len(fetch_log)].kept < fetch_log[Len(fetch_log)].n )
                 => /\ ret.error = "None"
                    /\ ret.records_fetched = SumKept(fetch_log)

\* Witness of C8: the second page of an incremental sync held two items, one of
\* them older than the cutoff, and a nextPagePath with a cursor; the sync made
\* no third fetch and merged the items taken from both pages.
C8_Witness ==
    /\ pc = "idle"
    /\ ret.op = "sync_dividends"
    /\ ret.error = "None"
    /\ Len(fetch_log) = 2
    /\ fetch_log[1].kept = fetch_log[1].n
    /\ fetch_log[2].n = 2
    /\ fetch_log[2].kept = 1
    /\ fetch_log[2].next = "cursor"
    /\ ret.records_fetched = fetch_log[1].n + 1

\* ---------------------------------------------------------------------------
\* Properties of the sync error paths
\* ---------------------------------------------------------------------------
\* C11: when a fetch of an orders sync raises after k >= 0 pages were received,
\* the loop ends with the orders of those pages collected; the code after the
\* loop merges them (every collected order with an id has a row afterwards, and
\* an id that was not stored and occurs once gets exactly the fetched record),
\* records_fetched is their number, and the call returns a result whose error
\* is set instead of raising.
C11_PartialOrdersMergedOnError ==
    /\ [] ( ( pc = "sync_orders_merge" /\ fetch_log[Len(fetch_log)].raised )
              => /\ Len(all_items) = SumN(fetch_log)
                 /\ ret.error # "None" )
    /\ [][ ( SyncOrdersReturns /\ fetch_log[Len(fetch_log)].raised )
              => /\ ~ret'.raised
                 /\ ret'.error # "None"
                 /\ ret'.records_fetched = SumN(fetch_log)
                 /\ \A i \in DOMAIN all_items :
                       all_items[i].id # NoId
                          => /\ \E r \in RowsOf(db'["orders"]) : r.id = all_items[i].id
                             /\ ( /\ ExistingOrder(db["orders"], all_items[i].id) = {}
                                  /\ \A j \in DOMAIN all_items :
                                        all_items[j].id = all_items[i].id => j = i )
                                   => OrderRow(all_items[i]) \in db'["orders"]
         ]_vars

\* Witness of C11: the second fetch of a sync raised after a first page with
\* orders; the result carries the error, counts the first page, and the store
\* holds rows.
C11_Witness ==
    /\ pc = "idle"
    /\ ret.op = "sync_orders"
    /\ Len(fetch_log) = 2
    /\ fetch_log[2].raised
    /\ fetch_log[1].n >= 1
    /\ ret.error # "None"
    /\ ~ret.raised
    /\ ret.records_fetched = fetch_log[1].n
    /\ ret.records_added >= 1
    /\ RowsOf(db["orders"]) # {}

\* ---------------------------------------------------------------------------
\* Properties of the transactions sync
\* ---------------------------------------------------------------------------
InSyncTransactions == pc \in {"sync_transactions", "sync_transactions_merge"}

SyncTransactionsReturns == pc = "sync_transactions_merge" /\ pc' = "idle"

\* C12: in a transactions sync, every request after the first carries the
\* cursor of the nextPagePath of the response just before it, and the time
\* token of that same nextPagePath; a token of an earlier response is never
\* sent again in its place. (A nextPagePath without a time token leaves the
\* request with the filter of the first request.)
C12_CursorAndTimeCarried ==
    \A i \in DOMAIN fetch_log :
        i > 1 => /\ fetch_log[i].endpoint = "transactions"
                 /\ fetch_log[i].cursor # NoCursor
                 /\ fetch_log[i].cursor = fetch_log[i - 1].next_cursor
                 /\ fetch_log[i].time = IF fetch_log[i - 1].next_time # NoDate
                                        THEN fetch_log[i - 1].next_time
                                        ELSE fetch_log[1].time

C12_Witness ==
    /\ pc = "idle"
    /\ ret.op = "sync_transactions"
    /\ Len(fetch_log) = 3
    /\ fetch_log[1].next_cursor = 1 /\ fetch_log[1].next_time = Ts(5, 0)
    /\ fetch_log[2].cursor = 1 /\ fetch_log[2].time = Ts(5, 0)
    /\ fetch_log[2].next_cursor = 2 /\ fetch_log[2].next_time = Ts(6, 0)
    /\ fetch_log[3].cursor = 2 /\ fetch_log[3].time = Ts(6, 0)

RECURSIVE ItemsOf(_)
ItemsOf(resps) ==
    IF resps = <<>> THEN <<>> ELSE Head(resps).items \o ItemsOf(Tail(resps))

WithReference(items) == SelectSeq(items, LAMBDA x : x.reference # NoReference)

ReferenceTables == {"dividends", "transactions"}

\* C14: no row of dividends or transactions is ever without a reference; in
\* a sync that merges what it fetched, a record without a reference is one
\* of the records fetched and is not one of the records added: the number
\* added is the number of fetched records that have a reference.
C14_NoReferenceNeverStored ==
    /\ [] ( \A tb \in ReferenceTables :
              \A r \in db[tb] : r.reference # NoReference )
    /\ [][ \A tb \in ReferenceTables \cap DOMAIN results' :
              LET items == ItemsOf(upstream'[tb])
                  asked == SelectSeq(fetch_log', LAMBDA e : e.endpoint = tb)
              IN  results'[tb].error = "None"
                    => /\ results'[tb].records_fetched = SumKept(asked)
                       /\ SumKept(asked) = Len(items)
                            => results'[tb].records_added = Len(WithReference(items))
                       /\ \A r \in RowsOf(db'[tb]) \ db[tb] :
                            \E i \in DOMAIN items : items[i].reference = r.reference
         ]_vars

C14_Witness ==
    /\ ret.op = "sync_all"
    /\ DOMAIN results = VALID_TABLES
    /\ results["dividends"].records_fetched = 2
    /\ results["dividends"].records_added = 1
    /\ results["transactions"].records_fetched = 3
    /\ results["transactions"].records_added = 2
    /\ Cardinality(db["dividends"]) = 1
    /\ Cardinality(db["transactions"]) = 2

\* The step is a call of sync_all or of sync_historical_data.
MultiSync == ret'.op \in {"sync_all", "sync_historical_data"} /\ pc = "idle"

\* The result a sync gives on a disabled store.
DisabledResult(tb) ==
    SyncResult(CASE tb = "orders" -> "sync_orders"
                 [] tb = "dividends" -> "sync_dividends"
                 [] tb = "transactions" -> "sync_transactions",
               0, 0, 0, now, "Cache is disabled")

\* C15: on a disabled store each of the three syncs returns the error "Cache
\* is disabled" with zero fetched, added and total counts; no request goes
\* upstream and the tables and the sync metadata stay as they were.
C15_DisabledStoreShortCircuits ==
    [][ ( MultiSync /\ ~enabled )
          => /\ ~ret'.raised
             /\ DOMAIN results' = VALID_TABLES
             /\ \A tb \in VALID_TABLES :
                   /\ results'[tb] = DisabledResult(tb)
                   /\ results'[tb].error = "Cache is disabled"
                   /\ results'[tb].records_fetched = 0
                   /\ results'[tb].records_added = 0
                   /\ results'[tb].total_records = 0
             /\ fetch_log' = <<>>
             /\ db' = db
             /\ meta' = meta
      ]_vars

C15_Witness ==
    /\ ~enabled
    /\ ret.op = "sync_all"
    /\ DOMAIN results = VALID_TABLES
    /\ \A tb \in VALID_TABLES : results[tb].error = "Cache is disabled"
    /\ fetch_log = <<>>

\* The tables a call was asked to sync.
Requested ==
    IF ret'.op = "sync_all" \/ args'.tables = <<>> THEN VALID_TABLES
    ELSE Range(args'.tables)

\* C16: a call that syncs several tables returns a result for every table
\* it was asked for, whatever happens while one of them is synced: a failure
\* is in that table's result, and the other tables are synced.
C16_FailureOfOneTableIsolated ==
    [][ MultiSync
          => /\ ~ret'.raised
             /\ DOMAIN results' = Requested
      ]_vars

\* A fetch that raises, of any table, is in that table's result, and the
\* other tables of the call are synced.
FetchErrorsAreIsolated ==
    [][ ( MultiSync /\ ~ret'.raised /\ enabled )
          => /\ DOMAIN results' = Requested
             /\ \A tb \in Requested :
                   LET asked == SelectSeq(fetch_log', LAMBDA e : e.endpoint = tb)
                   IN  /\ asked # <<>>
                       /\ asked[Len(asked)].raised <=> results'[tb].error # "None"
                       /\ ~asked[Len(asked)].raised => meta'[tb].synced
      ]_vars

\* ---------------------------------------------------------------------------
\* Properties of the retry decorator
\* ---------------------------------------------------------------------------
\* The call of with_retry has ended.
WithRetryEnded == pc = "idle" /\ ret.op = "with_retry"

\* The invocation failed with one of the errors the policy names as
\* retryable.
RetryableFailure(o) ==
    \/ o.kind = "HTTPStatusError" /\ o.status \in {408, 429, 500, 502, 503, 504}
    \/ o.kind \in {"ConnectError", "TimeoutException"}

LastOf(calls) == calls[Len(calls)]

LastCall == LastOf(retry.calls)

\* C17: an invocation is followed by a sleep and another invocation only when
\* it failed with a connect or timeout error or with status 408, 429, 500,
\* 502, 503 or 504; after any other failure (400, 401, 403, 404, ...) the
\* error is raised at once: nothing is invoked and nothing is slept after
\* it, so when it is the first invocation that fails so, the function has
\* been invoked once and there has been no sleep.
C17_OnlyRetryableErrorsRetried ==
    /\ [] ( \A i \in DOMAIN retry.calls :
              i < Len(retry.calls) => RetryableFailure(retry.calls[i]) )
    /\ [] ( Len(retry.sleeps) <= Len(retry.calls) )
    /\ [][ ( pc = "with_retry" /\ retry'.calls # retry.calls
               /\ LastOf(retry'.calls).kind # "return"
               /\ ~RetryableFailure(LastOf(retry'.calls)) )
             => /\ pc' = "idle"
                /\ ret'.raised
                /\ ret'.error = LastOf(retry'.calls).kind
                /\ ret'.count = LastOf(retry'.calls).status
                /\ retry'.sleeps = retry.sleeps
                /\ retry.calls = <<>> => ( Len(retry'.calls) = 1 /\ retry'.sleeps = <<>> )
         ]_vars

C17_Witness ==
    /\ WithRetryEnded
    /\ retry.max_retries = 2
    /\ retry.calls = <<HTTPStatusError(404)>>
    /\ retry.sleeps = <<>>
    /\ ret.raised

\* C18: with k the number of retryable failures before the first success, the
\* function is invoked min(k, max_retries) + 1 times: a success within the
\* first max_retries + 1 invocations is returned, and after max_retries + 1
\* retryable failures, of whatever kinds, the last error is raised.
C18_AttemptCap ==
    /\ [] ( pc = "with_retry"
              => /\ Len(retry.calls) = retry.attempt
                 /\ retry.attempt <= Max(retry.max_retries, 0)
                 /\ \A i \in DOMAIN retry.calls : RetryableFailure(retry.calls[i]) )
    /\ [] ( ( WithRetryEnded /\ retry.calls # <<>> /\ LastCall.kind = "return" )
              => /\ ~ret.raised
                 /\ Len(retry.calls) - 1 <= retry.max_retries
                 /\ Len(retry.sleeps) = Len(retry.calls) - 1 )
    /\ [] ( ( WithRetryEnded /\ retry.calls # <<>> /\ RetryableFailure(LastCall) )
              => /\ ret.raised
                 /\ ret.error = LastCall.kind
                 /\ ret.count = LastCall.status
                 /\ Len(retry.calls) = retry.max_retries + 1 )
    /\ [] ( ( WithRetryEnded /\ retry.calls = <<>> )
              => ( retry.max_retries < 0 /\ ret.raised /\ ret.error = "RuntimeError" ) )

C18_Witness ==
    /\ WithRetryEnded
    /\ retry.max_retries = 2
    /\ retry.calls = <<ConnectError, HTTPStatusError(503), TimeoutException>>
    /\ ret.raised
    /\ ret.error = "TimeoutException"

MissingOrMalformed(headers) ==
    \/ \E h \in {headers.limit, headers.remaining, headers.reset} :
          h.kind \in {"missing", "empty", "text"}
    \/ headers.limit.kind # "integer"
    \/ headers.remaining.kind # "integer"

SameEndpoints(a, b) ==
    /\ DOMAIN a = DOMAIN b
    /\ \A e \in DOMAIN a : a[e] = b[e]

\* C19: update_from_headers never raises; with a missing or malformed header
\* among the three it changes nothing of what is recorded, for the endpoint
\* of the call and for every other one (and with three well-formed headers
\* it records them for that endpoint only).
C19_BadHeadersIgnored ==
    [][ Called("update_from_headers")
          => /\ ~ret'.raised
             /\ MissingOrMalformed(args'.headers) => SameEndpoints(limiter', limiter)
             /\ ~MissingOrMalformed(args'.headers)
                  => /\ DOMAIN limiter' = DOMAIN limiter \cup {args'.endpoint}
                     /\ limiter'[args'.endpoint]
                          = EndpointLimit(args'.headers.limit.value,
                                          args'.headers.remaining.value,
                                          args'.headers.reset.value)
                     /\ \A e \in DOMAIN limiter \ {args'.endpoint} :
                          limiter'[e] = limiter[e]
      ]_vars

C19_Witness ==
    /\ ret.op = "update_from_headers"
    /\ ~ret.raised
    /\ args.headers = Headers(Integer(1), Decimal(1), Integer(2))
    /\ DOMAIN limiter = Endpoints
    /\ limiter[args.endpoint] = EndpointLimit(1, 0, 1)

\* C20: can_make_request(endpoint) is true when nothing is recorded for the
\* endpoint, true when the time is at or after the recorded reset time, and
\* otherwise it is whether the recorded remaining is above 0; it changes
\* nothing.  With limit 1 and remaining 0 it is false before the reset time
\* and true from the reset time on, with no update in between.
C20_CanMakeRequest ==
    [][ Called("can_make_request")
          => LET e == args'.endpoint
             IN  /\ e \notin DOMAIN limiter => ret'.allowed
                 /\ e \in DOMAIN limiter
                      => /\ FloatGeq(now, limiter[e].reset_time) => ret'.allowed
                         /\ ~FloatGeq(now, limiter[e].reset_time)
                              => ( ret'.allowed <=> limiter[e].remaining > 0 )
                         /\ ( limiter[e] = EndpointLimit(1, 0, now + 1) ) => ~ret'.allowed
                 /\ SameEndpoints(limiter', limiter)
                 /\ ~ret'.raised
      ]_vars

C20_Witness ==
    /\ ret.op = "can_make_request"
    /\ ret.allowed
    /\ args.endpoint \in DOMAIN limiter
    /\ limiter[args.endpoint] = EndpointLimit(1, 0, 1)
    /\ now = 1


WaitIfNeededReturns ==
    /\ pc = "idle" /\ pc' = "idle"
    /\ ret'.op = "wait_if_needed"
    /\ ~(ret' = ret /\ args' = args)

\* C32: wait_if_needed(endpoint) does not sleep when can_make_request(endpoint)
\* is true; when it is false the call sleeps once, for get_wait_time(endpoint)
\* seconds, and can_make_request(endpoint) is true at the time the sleep
\* ends; the recorded state of the limiter is the same afterwards.
C32_WaitIfNeededBlocksUntilAllowed ==
    [][ WaitIfNeededReturns
          => LET e == args'.endpoint
                 can == CanMakeRequestResult(limiter, e, now)
             IN  /\ can => ( ret'.count = 0 /\ now' = now )
                 /\ ~can => /\ ret'.count = 1
                            /\ ret'.wait = GetWaitTimeResult(limiter, e, now)
                            /\ now' = now + ret'.wait
                            /\ CanMakeRequestResult(limiter', e, now')
                 /\ SameEndpoints(limiter', limiter)
      ]_vars

\* With a number as the recorded reset time the call does block until a
\* request is allowed.
WaitIfNeededWithNumericReset ==
    [][ ( WaitIfNeededReturns
          /\ ( args'.endpoint \in DOMAIN limiter
                 => limiter[args'.endpoint].reset_time # NaN ) )
          => LET e == args'.endpoint
                 can == CanMakeRequestResult(limiter, e, now)
             IN  /\ can => ( ret'.count = 0 /\ now' = now )
                 /\ ~can => /\ ret'.count = 1
                            /\ ret'.wait = GetWaitTimeResult(limiter, e, now)
                            /\ now' = now + ret'.wait
                            /\ CanMakeRequestResult(limiter', e, now')
                 /\ SameEndpoints(limiter', limiter)
      ]_vars

\* ---------------------------------------------------------------------------
\* Incremental dividends syncs against a descending upstream
\* ---------------------------------------------------------------------------
\* The account's rows hold the dividend.
HoldsDividend(tbl, d) ==
    \E r \in RowsOf(tbl) : r.reference = d.reference /\ r.paid_on = d.paid_on

\* No dividend of the list is paid later than one before it.
Descending(u) ==
    \A i, j \in DOMAIN u :
        i < j /\ u[i].paid_on # NoDate /\ u[j].paid_on # NoDate
            => Instant(u[i].paid_on) >= Instant(u[j].paid_on)

\* An incremental dividends sync returns without an error, the upstream list
\* was descending and the cache held, before the call, every dividend of it
\* that was paid before the cutoff.
IncrementalSyncOfDescending ==
    /\ now' = now
    /\ ret'.op = "sync_dividends" /\ args'.incremental
    /\ ret'.error = "None" /\ ~ret'.raised
    /\ NewestRecordDate(db["dividends"]) # NoDate
    /\ Descending(upstream'["dividends"])
    /\ \A i \in DOMAIN upstream'["dividends"] :
          LET d == upstream'["dividends"][i]
          IN  d.paid_on # NoDate
                /\ Instant(d.paid_on) < Instant(NewestRecordDate(db["dividends"]))
                => HoldsDividend(db["dividends"], d)

\* C40: after such a sync the cache holds every dividend of the upstream
\* list that has a reference.
C40_IncrementalSyncLosesNothing ==
    [][ IncrementalSyncOfDescending
          => \A i \in DOMAIN upstream'["dividends"] :
                upstream'["dividends"][i].reference # NoReference
                    => HoldsDividend(db'["dividends"], upstream'["dividends"][i]) ]_vars

\* The same holds of every dividend before the first one of the list that
\* has no paid_on, and so of all when every dividend has one.
LosesNothingBeforeUndated ==
    [][ IncrementalSyncOfDescending
          => \A i \in DOMAIN upstream'["dividends"] :
                /\ upstream'["dividends"][i].reference # NoReference
                /\ \A j \in 1..i : upstream'["dividends"][j].paid_on # NoDate
                => HoldsDividend(db'["dividends"], upstream'["dividends"][i]) ]_vars

\* An incremental sync over a cache that holds r1 and r2 has fetched the
\* two dividends paid at the cutoff, a page each, and stopped at r1.
IncrementalSyncReached ==
    /\ ret.op = "sync_dividends" /\ args.incremental /\ ret.error = "None"
    /\ upstream["dividends"]
         = <<Dividend(NoReference, Ts(2, 0)), Dividend("r2", Ts(2, 0)),
             Dividend("r1", Ts(1, 0))>>
    /\ Len(fetch_log) = 3 /\ fetch_log[3].kept = 0
    /\ ret.records_fetched = 2
    /\ \A i \in 2..3 : HoldsDividend(db["dividends"], upstream["dividends"][i])

\* An incremental sync has stopped at a first page that holds a dividend
\* without paid_on, and the dividend after it, paid at the cutoff, was not
\* asked for.
StoppedAtUndatedReached ==
    /\ ret.op = "sync_dividends" /\ args.incremental /\ ret.error = "None"
    /\ upstream["dividends"] = <<Dividend("r3", NoDate), Dividend("r2", Ts(2, 0))>>
    /\ Len(fetch_log) = 1
    /\ ~HoldsDividend(db["dividends"], Dividend("r3", NoDate))

\* ---------------------------------------------------------------------------
\* Termination of the pagination loops
\* ---------------------------------------------------------------------------
\* C39: every sync call returns, whatever the upstream answers: each of the
\* three pagination loops, once entered, is left.
C39_EverySyncReturns ==
    \A p \in {"sync_orders", "sync_dividends", "sync_transactions"} :
        (pc = p) ~> (pc = "idle")

\* A loop goes on to another request only after a non-empty page whose
\* nextPagePath carries a cursor; it does so also when that cursor is the
\* one it has just requested.
LoopContinuesOnCursorOnly ==
    [][ pc # "idle" /\ pc' = pc
          => /\ fetch_log'[1].n > 0
             /\ ~fetch_log'[1].raised
             /\ fetch_log'[1].next \in {"cursor", "query", "path"}
             /\ cursor' # NoCursor ]_vars

\* The loop has requested the cursor that the page it got names as the
\* next one, and goes on.
RepeatedCursorReached ==
    /\ pc \in {"sync_orders", "sync_dividends", "sync_transactions"}
    /\ fetch_log # <<>>
    /\ fetch_log[1].cursor # NoCursor
    /\ fetch_log[1].cursor = cursor

\* ---------------------------------------------------------------------------
\* Properties of the client's lazily constructed store
\* ---------------------------------------------------------------------------
\* The first initialization has failed: a lookup was made and there is no
\* store.
InitializationFailed == data_store.lookups > 0 /\ ~data_store.store

\* The call does what the method does with this value of _get_data_store.
DoesAsWith(ds) ==
    LET out == ClientOutcome(ret'.op, ds, db, meta, args'.table)
    IN  ret' = out.ret /\ db' = out.db /\ meta' = out.meta /\ sql_log' = out.sql

\* C38: _get_data_store makes at most one account lookup in the life of
\* the client.  Once the store is there, every cache method leaves the
\* client's store and account id as they are, makes no lookup and works on
\* that store; once the first initialization has failed, every cache method
\* makes no lookup, leaves the client as it is and does what it does with
\* caching disabled.
C38_FirstInitializationIsFinal ==
    /\ [](data_store.lookups <= 1)
    /\ [](data_store.store => data_store.account_id = ACCOUNT_ID)
    /\ [][ /\ data_store.store => data_store' = data_store /\ DoesAsWith(TRUE)
           /\ InitializationFailed => data_store' = data_store /\ DoesAsWith(FALSE) ]_vars

\* After a failed first lookup, clear_cache has raised ValueError and the
\* rows are all there; the client makes no further attempt.
C38_Witness ==
    /\ InitializationFailed
    /\ data_store.enable_local_cache
    /\ ~data_store.init_pending
    /\ ret.op = "client.clear_cache" /\ ret.raised /\ ret.error = "ValueError"
    /\ args.table = "orders"
    /\ \E r \in db["orders"] : r.account_id = ACCOUNT_ID

\* The store is there after one lookup, and clear_cache has deleted the
\* account's orders through it.
StoreReadyUsed ==
    /\ data_store.store /\ data_store.lookups = 1
    /\ ret.op = "client.clear_cache" /\ ~ret.raised /\ ret.count > 0
    /\ args.table = "orders"

\* ---------------------------------------------------------------------------
\* Properties of the client's requests
\* ---------------------------------------------------------------------------
\* The latest response of the endpoint said that no request remains until a
\* reset time that is later than t.
SaidExhausted(last, endpoint, t) ==
    /\ endpoint \in DOMAIN last
    /\ last[endpoint].remaining = Integer(0)
    /\ last[endpoint].reset.kind \in {"integer", "decimal"}
    /\ last[endpoint].reset.value > t

\* The limiter holds what the latest response of the endpoint said.
LatestRecorded(lim, last, endpoint) ==
    endpoint \in DOMAIN last /\ Present(last[endpoint].limit)
        => /\ endpoint \in DOMAIN lim
           /\ lim[endpoint] = EndpointLimit(last[endpoint].limit.value,
                                            last[endpoint].remaining.value,
                                            last[endpoint].reset.value)

\* A request is sent.
AttemptSent ==
    /\ pc = "make_request"
    /\ Len(retry'.calls) = Len(retry.calls) + 1

\* C37: whenever a request is sent to an endpoint, the first of a call or a
\* retry, the limiter holds the headers of the latest response of that
\* endpoint, and that response did not say remaining 0 with a reset time
\* that is still ahead.
C37_EveryAttemptGated ==
    [][ AttemptSent
          => /\ LatestRecorded(limiter, retry.last, args.endpoint)
             /\ ~SaidExhausted(retry.last, args.endpoint, now) ]_vars

\* The first request of a call is held back until the reset time when the
\* limiter holds what the latest response said.
FirstAttemptGatedWhenRecorded ==
    [][ AttemptSent /\ retry.calls = <<>>
            /\ LatestRecorded(limiter, retry.last, args.endpoint)
          => ~SaidExhausted(retry.last, args.endpoint, now) ]_vars

\* A retry is sent while the response to the attempt before it said
\* remaining 0 until later, and the limiter has recorded nothing.
UngatedRetryReached ==
    /\ pc = "make_request"
    /\ Len(retry.calls) = 1
    /\ limiter = <<>>
    /\ SaidExhausted(retry.last, args.endpoint, now)

\* ---------------------------------------------------------------------------
\* Properties of the management methods
\* ---------------------------------------------------------------------------
\* The table is on the allow-list and the column is the one registered for it.
Registered(table, date_column) ==
    /\ table \in VALID_TABLES
    /\ date_column = VALID_DATE_COLUMNS[table]

\* C22: _get_newest_record_date and _get_data_coverage, asked for a table
\* outside {orders, dividends, transactions} or for a column that is not the
\* one registered for the table, raise without having executed a statement
\* and leave every table and the metadata as they were; asked for a
\* registered pair they execute one SELECT and raise nothing.
C22_UnlistedNamesRaiseBeforeStorage ==
    [][ ( Called("_get_newest_record_date") \/ Called("_get_data_coverage") )
          => /\ ~Registered(args'.table, args'.date_column)
                  => /\ ret'.raised
                     /\ ret'.error = "ValueError"
                     /\ sql_log' = <<>>
             /\ Registered(args'.table, args'.date_column)
                  => /\ ~ret'.raised
                     /\ Len(sql_log') = 1
             /\ db' = db
             /\ meta' = meta
      ]_vars

\* The coverage of dividends was asked for by the column of the orders
\* table, on a database that holds dividends.
C22_Witness ==
    /\ ret.op = "_get_data_coverage"
    /\ ret.raised
    /\ args.table = "dividends"
    /\ args.date_column = "date_created"
    /\ RowsOf(db["dividends"]) # {}
    /\ sql_log = <<>>


\* The call took a table name from its caller that is outside the allow-list.
UnlistedNamePassed ==
    \/ /\ ( Called("clear_cache") \/ Called("client.clear_cache") )
       /\ args'.table \notin VALID_TABLES \cup {"None"}
    \/ /\ Called("sync_historical_data")
       /\ args'.force
       /\ \E i \in DOMAIN args'.tables : args'.tables[i] \notin VALID_TABLES

\* C23: clear_cache(table), the client's clear_cache(table) and
\* sync_historical_data(tables, force=True), given a table name outside
\* {orders, dividends, transactions}, execute no statement and leave every
\* row of every table and of the metadata as it was, and where there is an
\* enabled store they raise.
C23_UnlistedNamesFailClosed ==
    [][ UnlistedNamePassed
          => /\ sql_log' = <<>>
             /\ db' = db
             /\ meta' = meta
             /\ ( enabled /\ ( Called("clear_cache") \/ data_store ) ) => ret'.raised
      ]_vars


\* C24: get_stats on a disabled store and the client's get_cache_stats
\* without a data store return a CacheStats with enabled = false, zero counts
\* and no sync time and no coverage, and do not raise; they execute no
\* statement and change nothing.
C24_StatsAlwaysComputable ==
    [][ ( ( Called("get_stats") /\ ~enabled ) \/ ( Called("get_cache_stats") /\ ~data_store ) )
          => /\ ~ret'.raised
             /\ ret'.stats = DisabledStats
             /\ sql_log' = <<>>
             /\ db' = db
             /\ meta' = meta
      ]_vars

\* The part of it that holds: get_stats never raises, and on a disabled
\* store it returns the zero CacheStats.
GetStatsNeverRaises ==
    [][ Called("get_stats")
          => /\ ~ret'.raised
             /\ ~enabled => ret'.stats = DisabledStats
             /\ db' = db
             /\ meta' = meta
      ]_vars


\* The rows of a table that are not of the store's account.
NotOwn(tbl) == {r \in tbl : r.account_id # ACCOUNT_ID}

\* What the statement about clear_cache asks of a call with a table of the
\* allow-list or with no table.
ClearedAsAsked ==
    /\ ~ret'.raised
    /\ args'.table \in VALID_TABLES
          => /\ db'[args'.table] = NotOwn(db[args'.table])
             /\ ret'.deleted = {<<args'.table, Cardinality(RowsOf(db[args'.table]))>>}
             /\ \A t \in VALID_TABLES \ {args'.table} : db'[t] = db[t]
             /\ meta' = meta
    /\ args'.table = "None"
          => /\ \A t \in VALID_TABLES : db'[t] = NotOwn(db[t])
             /\ meta' = [t \in VALID_TABLES |-> NoMeta]
             /\ ret'.deleted =
                    {<<t, Cardinality(RowsOf(db[t]))>> : t \in VALID_TABLES}
                    \cup {<<"sync_metadata",
                            Cardinality({t \in VALID_TABLES : meta[t].synced})>>}

\* C25 as stated: every clear_cache(table) deletes exactly the account's rows
\* of that table and returns their number under the table's name, and every
\* clear_cache() empties the three tables and the metadata of the account.
C25_ClearDeletesAccountRows ==
    [][ ( Called("clear_cache") /\ args'.table \in VALID_TABLES \cup {"None"} )
          => ClearedAsAsked
      ]_vars

\* C25: on an enabled store (and through a client that holds the store),
\* clear_cache(table) for a table of the allow-list deletes exactly the rows
\* of that table that belong to the store's account, returns their number
\* under the table's name and leaves the other tables, the rows of other
\* accounts and the metadata unchanged; clear_cache() deletes the account's
\* rows of orders, dividends, transactions and of the metadata.  On a
\* disabled store it deletes nothing and returns an empty dict.
C25_ClearOnEnabledStore ==
    [][ /\ ( ( ( Called("clear_cache") /\ enabled )
                \/ ( Called("client.clear_cache") /\ data_store ) )
             /\ args'.table \in VALID_TABLES \cup {"None"} )
          => ClearedAsAsked
        /\ ( Called("clear_cache") /\ ~enabled )
          => /\ ~ret'.raised
             /\ ret'.deleted = {}
             /\ db' = db
             /\ meta' = meta
      ]_vars

\* Two dividends of the account were deleted; its order and the dividend
\* of the other account are still there.
C25_Witness ==
    /\ ret.op = "clear_cache"
    /\ args.table = "dividends"
    /\ ret.deleted = {<<"dividends", 2>>}
    /\ RowsOf(db["dividends"]) = {}
    /\ db["dividends"] # {}
    /\ RowsOf(db["orders"]) # {}


\* ---------------------------------------------------------------------------
\* The history tools
\* ---------------------------------------------------------------------------
\* The get_dividends tool: client.get_dividends(cursor, ticker, limit), one
\* request with the caller's cursor and the limit brought into 1..50.
GetDividends ==
    /\ Idle
    /\ \E c \in {NoCursor} \cup Cursors, limit \in {0, 20, 51},
          resp \in {RaisedResponse, EmptyResponse} :
        /\ args' = [NoArgs EXCEPT !.cursor = c, !.limit = limit]
        /\ fetch_log' = <<Fetched("dividends", c, DividendsRequestLimit(limit), resp,
                                  Len(resp.items))>>
        /\ ret' = IF resp.raised THEN Raised("get_dividends", "Exception")
                  ELSE [NoRet EXCEPT !.op = "get_dividends"]
    /\ UNCHANGED <<other_vars, cache_freshness_minutes, cutoff_dt, enabled, db, meta,
                   now, pc, cursor, all_items>>

\* The get_transactions tool: client.get_history_transactions(cursor,
\* time_from, limit), one request with the caller's cursor, time and limit.
GetTransactions ==
    /\ Idle
    /\ \E c \in {NoCursor} \cup TransactionCursors, t \in {NoDate} \cup TimeTokens,
          limit \in {20, 51},
          resp \in {r \in TransactionResponses : r.items = <<>>} :
        /\ args' = [NoArgs EXCEPT !.cursor = c, !.limit = limit]
        /\ fetch_log' = <<TransactionsFetched(c, t, limit, resp)>>
        /\ ret' = IF resp.raised THEN Raised("get_transactions", "Exception")
                  ELSE [NoRet EXCEPT !.op = "get_transactions"]
    /\ UNCHANGED <<other_vars, cache_freshness_minutes, cutoff_dt, enabled, db, meta,
                   now, pc, cursor, all_items>>

NextTools ==
    \/ GetOrderHistory
    \/ GetDividends
    \/ GetTransactions

\* The tools over a store of an earlier run (or over none).
SpecTools == InitCache /\ [][NextTools]_vars

\* The table a history tool reads.
ToolTable ==
    CASE Called("get_order_history") -> "orders"
      [] Called("get_dividends") -> "dividends"
      [] Called("get_transactions") -> "transactions"

ToolCalled ==
    Called("get_order_history") \/ Called("get_dividends") \/ Called("get_transactions")

\* C27: a history tool called while the client holds a data store whose
\* table is fresh (is_cache_fresh with the configured threshold) answers from
\* the cache: it sends no request upstream and runs no sync.
C27_ToolsAreCacheFirst ==
    [][ ( /\ ToolCalled
          /\ data_store
          /\ IsCacheFreshResult(enabled, meta[ToolTable], cache_freshness_minutes, now).fresh )
          => /\ fetch_log' = <<>>
             /\ meta' = meta
             /\ db' = db
      ]_vars

\* The part of it that holds: with no data store the tools send the call
\* upstream, one request with the caller's cursor.
ToolsPassThroughWithoutStore ==
    [][ ( ToolCalled /\ ~data_store )
          => /\ Len(fetch_log') = 1
             /\ fetch_log'[1].cursor = args'.cursor
             /\ db' = db
             /\ meta' = meta
      ]_vars


\* ---------------------------------------------------------------------------
\* Freshness after a clear
\* ---------------------------------------------------------------------------
\* C34: when the last call on the store was clear_cache(table) for one table
\* (nothing has been synced since), is_cache_fresh(table, m) answers False
\* for every threshold m above 0.
C34_ClearedTableIsNotFresh ==
    [][ ( /\ ret.op = "clear_cache"
          /\ args.table \in VALID_TABLES
          /\ Called("is_cache_fresh")
          /\ args'.table = args.table
          /\ FreshnessMinutes(args'.max_age_minutes) > 0 )
          => ~ret'.fresh ]_vars

\* After a clear of all tables no table is fresh under a threshold above 0.
FullClearIsNotFresh ==
    [][ ( /\ ret.op = "clear_cache"
          /\ args.table = "None"
          /\ Called("is_cache_fresh")
          /\ FreshnessMinutes(args'.max_age_minutes) > 0 )
          => ~ret'.fresh ]_vars

\* ---------------------------------------------------------------------------
\* Metadata after a sync that reports an error
\* ---------------------------------------------------------------------------
\* A sync call returns a result that carries an error.
SyncReturnsError ==
    /\ pc' = "idle"
    /\ ret' # ret
    /\ ret'.op \in {"sync_orders", "sync_dividends", "sync_transactions"}
    /\ ~ret'.raised
    /\ ret'.error # "None"

\* C35: a sync that returns a result with an error leaves the sync metadata
\* of every table as it was, so that is_cache_fresh answers as before it.
C35_FailedSyncKeepsLastSync ==
    [][ SyncReturnsError
          => /\ meta' = meta
             /\ \A t \in VALID_TABLES, m \in FreshnessSettings :
                   IsCacheFreshResult(enabled, meta'[t], m, now')
                     = IsCacheFreshResult(enabled, meta[t], m, now) ]_vars

\* ---------------------------------------------------------------------------
\* Fetch failures in the dividends and transactions syncs
\* ---------------------------------------------------------------------------
\* A call of sync_dividends or sync_transactions in which a fetch raised.
SyncWithFailedFetch ==
    /\ pc = "idle" /\ pc' = "idle" /\ now' = now
    /\ ret'.op \in {"sync_dividends", "sync_transactions"}
    /\ \E i \in DOMAIN fetch_log' : fetch_log'[i].raised

\* C36: when a page fetch of a dividends or transactions sync raises, after
\* however many pages, the rows of every table and the sync metadata are
\* what they were before the call, and the call returns a result with
\* records_fetched 0, records_added 0, the number of rows the table had and
\* still has as total_records, and the error.
C36_AllOrNothingOnFetchFailure ==
    [][ SyncWithFailedFetch
          => /\ db' = db
             /\ meta' = meta
             /\ ~ret'.raised
             /\ ret'.records_fetched = 0
             /\ ret'.records_added = 0
             /\ ret'.total_records = Cardinality(RowsOf(db[args'.table]))
             /\ ret'.error # "None" ]_vars

\* A dividends sync whose second fetch raised after a page with a dividend
\* that the sync kept: nothing is stored, nothing is recorded as synced.
C36_Witness ==
    /\ pc = "idle"
    /\ ret.op = "sync_dividends"
    /\ Len(fetch_log) = 2
    /\ fetch_log[1].kept = 1
    /\ fetch_log[2].raised
    /\ ret.error # "None"
    /\ ret.records_fetched = 0
    /\ db["dividends"] = {}
    /\ ~meta["dividends"].synced

\* The same for a transactions sync.
TransactionsFetchFailureReached ==
    /\ pc = "idle"
    /\ ret.op = "sync_transactions"
    /\ Len(fetch_log) = 2
    /\ fetch_log[1].n = 1
    /\ fetch_log[2].raised
    /\ db["transactions"] = {}
    /\ ~meta["transactions"].synced

\* ---------------------------------------------------------------------------
\* Accounts sharing one database
\* ---------------------------------------------------------------------------
RowsOfOthers(tbl) == {r \in tbl : r.account_id # ACCOUNT_ID}

\* C33: no step taken through the store of this account - upsert, sync,
\* clear - changes, replaces or deletes a row of another account in any
\* table, whatever ids and references the two accounts have in common; and
\* the newest record date this account reads is the date of one of its own
\* rows.
C33_RowsIsolatedByAccount ==
    [][ /\ \A t \in VALID_TABLES : RowsOfOthers(db'[t]) = RowsOfOthers(db[t])
        /\ ( Called("_get_newest_record_date") /\ ret'.newest # NoDate )
              => \E r \in RowsOf(db[args'.table]) :
                    DateOf(args'.table, r) = ret'.newest ]_vars

\* Clearing and reading leave the rows of the other account alone.
ClearAndReadIsolated ==
    [][ ( ret'.op \in {"clear_cache", "_get_newest_record_date"} /\ pc = "idle" )
          => /\ \A t \in VALID_TABLES : RowsOfOthers(db'[t]) = RowsOfOthers(db[t])
             /\ ( Called("_get_newest_record_date") /\ ret'.newest # NoDate )
                   => \E r \in RowsOf(db[args'.table]) :
                         DateOf(args'.table, r) = ret'.newest ]_vars

\* ---------------------------------------------------------------------------
\* The newest record date across syncs
\* ---------------------------------------------------------------------------
\* The newest record date of a table, as _get_newest_record_date computes it.
NewestOf(d, table) == SqlMax({DateOf(table, r) : r \in RowsOf(d[table])})

\* C26: no step of a dividends sync (incremental or full, with or without a
\* failing fetch) leaves the newest paid_on of the account's dividends lower
\* than it was, or absent where there was one.
C26_NewestDateNeverDecreases ==
    [][ InSyncDividends
          => LET before == NewestOf(db, "dividends")
                 after == NewestOf(db', "dividends")
             IN  before # NoDate
                    => /\ after # NoDate
                       /\ IsoLeq(before, after)
                       /\ Instant(before) <= Instant(after)
      ]_vars


\* ---------------------------------------------------------------------------
\* Time zones in the incremental dividends sync
\* ---------------------------------------------------------------------------
\* The stored paid_on that is latest in absolute time.
LatestInstant(tbl) ==
    LET dates == {r.paid_on : r \in RowsOf(tbl)} \ {NoDate}
    IN  CHOOSE m \in dates : \A d \in dates : Instant(d) <= Instant(m)

\* C28: in an incremental dividends sync over stored dividends, the cutoff is
\* at the instant of the stored paid_on that is latest in absolute time,
\* whatever the offsets the stored timestamps are written with, and an item
\* is taken from a page exactly when its instant is not before that instant.
C28_CutoffIsLatestInstant ==
    ( InSyncDividends /\ args.incremental /\ NewestRecordDate(db["dividends"]) # NoDate )
        => /\ Instant(cutoff_dt) = Instant(LatestInstant(db["dividends"]))
           /\ \A i \in DOMAIN all_items :
                 Instant(all_items[i].paid_on) >= Instant(LatestInstant(db["dividends"]))

\* The part of it that holds: the comparison of an incoming item with the
\* cutoff is one of instants, not of texts.
ItemsComparedByInstant ==
    ( InSyncDividends /\ args.incremental /\ cutoff_dt # NoDate )
        => \A i \in DOMAIN all_items :
              /\ all_items[i].paid_on # NoDate
              /\ Instant(all_items[i].paid_on) >= Instant(cutoff_dt)


\* ---------------------------------------------------------------------------
\* Records of one order met in sequence
\* ---------------------------------------------------------------------------
\* The positions of orders before j that carry the id of orders[j].
EarlierOccurrences(orders, j) == {k \in 1..(j - 1) : orders[k].id = orders[j].id}

\* The status the record at position j finds stored under its id, told from
\* the table before the batch and the records before j: a final status once
\* stored stays, otherwise the latest record stands; "None" when no row.
StatusMet(tbl, orders, j) ==
    LET stored == {r.status : r \in ExistingOrder(tbl, orders[j].id)}
        earlier == EarlierOccurrences(orders, j)
        final == {k \in earlier : orders[k].status \in IMMUTABLE_ORDER_STATUSES}
    IN  IF stored \cap IMMUTABLE_ORDER_STATUSES # {}
        THEN CHOOSE s \in stored : TRUE
        ELSE IF final # {}
        THEN orders[CHOOSE k \in final : \A l \in final : k <= l].status
        ELSE IF earlier # {}
        THEN orders[CHOOSE k \in earlier : \A l \in earlier : l <= k].status
        ELSE IF stored # {} THEN CHOOSE s \in stored : TRUE
        ELSE "None"

\* The positions of a batch at which a record meets a stored final status.
MeetingTerminal(tbl, orders) ==
    {j \in DOMAIN orders : /\ orders[j].id # NoId
                           /\ StatusMet(tbl, orders, j) \in IMMUTABLE_ORDER_STATUSES}

\* C29: in _upsert_orders a record that meets a stored order of final status
\* is reported as a discrepancy exactly when its status differs from the
\* stored one (otherwise it is a plain skip); nothing is raised, the stored
\* row stays as it was, and the records that follow in the batch are still
\* written.
C29_DiscrepancyLoggedOnly ==
    [][ Called("_upsert_orders") =>
          LET tbl == db["orders"]
              orders == args'.items
              met == MeetingTerminal(tbl, orders)
          IN  /\ ~ret'.raised
              /\ ret'.warnings =
                    Cardinality({j \in met : orders[j].status # StatusMet(tbl, orders, j)})
              /\ ret'.skips =
                    Cardinality({j \in met : orders[j].status = StatusMet(tbl, orders, j)})
              /\ \A r \in tbl : r.status \in IMMUTABLE_ORDER_STATUSES => r \in db'["orders"]
              /\ \A j \in DOMAIN orders :
                    ( /\ orders[j].id # NoId
                      /\ j \notin met
                      /\ \A k \in DOMAIN orders : k > j => orders[k].id # orders[j].id )
                        => OrderRow(orders[j]) \in db'["orders"] ]_vars

\* A batch whose first record contradicts the stored final status of order 1
\* and whose second record, of order 2, was written all the same.
C29_Witness ==
    /\ ret.op = "_upsert_orders"
    /\ ret.warnings = 1
    /\ Len(args.items) = 2
    /\ args.items[1].id = 1
    /\ args.items[2].id = 2
    /\ \E r \in db["orders"] : /\ r.id = 1
                                /\ r.status \in IMMUTABLE_ORDER_STATUSES
                                /\ r.status # args.items[1].status
    /\ OrderRow(args.items[2]) \in db["orders"]


\* The positions of orders that carry the id.
Occurrences(orders, id) == {j \in DOMAIN orders : orders[j].id = id}

FirstPosition(S) == CHOOSE j \in S : \A k \in S : j <= k

LastPosition(S) == CHOOSE j \in S : \A k \in S : k <= j

HasFinalRow(tbl, id) ==
    \E r \in ExistingOrder(tbl, id) : r.status \in IMMUTABLE_ORDER_STATUSES

\* A page fetched by sync_orders is appended to the records collected so far.
PagesCollectedInOrder ==
    ( pc = "sync_orders" /\ pc' # "idle" /\ fetch_log' # fetch_log )
        => /\ Len(all_items') = Len(all_items) + fetch_log'[Len(fetch_log')].n
           /\ SubSeq(all_items', 1, Len(all_items)) = all_items

\* C30 as stated: sync_orders merges the fetched records in response order,
\* and for an id met several times (no final row of it stored before) the
\* first occurrence wins when it is final, otherwise the last occurrence wins.
C30_FirstIfTerminalElseLast ==
    [][ /\ PagesCollectedInOrder
        /\ SyncOrdersReturns =>
              \A id \in {all_items[j].id : j \in DOMAIN all_items} \ {NoId} :
                 ~HasFinalRow(db["orders"], id) =>
                    LET occ == Occurrences(all_items, id)
                        first == all_items[FirstPosition(occ)]
                        last == all_items[LastPosition(occ)]
                    IN  ExistingOrder(db'["orders"], id) =
                          {OrderRow(IF first.status \in IMMUTABLE_ORDER_STATUSES
                                    THEN first ELSE last)} ]_vars

\* C30, amended: sync_orders merges the fetched records in response order; a
\* final row stored before the sync is kept; otherwise the first occurrence
\* of final status wins over every other one, and when no occurrence is
\* final the last occurrence wins.
C30_FirstTerminalOccurrenceElseLast ==
    [][ /\ PagesCollectedInOrder
        /\ SyncOrdersReturns =>
              \A id \in {all_items[j].id : j \in DOMAIN all_items} \ {NoId} :
                 LET occ == Occurrences(all_items, id)
                     final == {j \in occ : all_items[j].status \in IMMUTABLE_ORDER_STATUSES}
                 IN  ExistingOrder(db'["orders"], id) =
                       IF HasFinalRow(db["orders"], id)
                       THEN ExistingOrder(db["orders"], id)
                       ELSE IF final # {}
                       THEN {OrderRow(all_items[FirstPosition(final)])}
                       ELSE {OrderRow(all_items[LastPosition(occ)])} ]_vars

\* A sync of two pages, an open record and a filled one on the first and one
\* more record on the second: the filled record, second of three, is stored
\* and the third was reported as a discrepancy.
C30_Witness ==
    /\ pc = "idle"
    /\ ret.op = "sync_orders"
    /\ Len(fetch_log) = 2
    /\ fetch_log[1].n = 2
    /\ fetch_log[2].n = 1
    /\ ret.records_fetched = 3
    /\ ret.records_added = 2
    /\ ret.warnings = 1
    /\ ExistingOrder(db["orders"], 1) = {OrderRow(Order(1, "FILLED", 150))}

====
